---- MODULE Spec2Model ----
(***************************************************************************)
(* Credential verification and session lifecycle of the Express backend:   *)
(* the OTP ledgers and verification-token stores of routes/auth.js and of  *)
(* the forgot-password router, the register_random / admin_random tables,  *)
(* the session tokens signed at login and the two guards that check them.  *)
(*                                                                         *)
(* Strings the code normalises or validates (emails, passwords, mobile     *)
(* numbers) are sequences of one-character strings; OTP codes are the      *)
(* integers crypto.randomInt draws; times are Date.now() milliseconds.     *)
(***************************************************************************)
EXTENDS Integers, Sequences, FiniteSets, Bags, TLC

----------------------------------------------------------------------------
(* Program constants *)

OTP_TTL_MS == 10 * 60 * 1000
MAX_OTP_ATTEMPTS == 5
OTP_RESEND_COOLDOWN_MS == 30 * 1000
VERIFY_TOKEN_TTL_MS == 15 * 60 * 1000
\* expiresIn "7d" of jwt.sign, in seconds
TOKEN_EXP_S == 7 * 24 * 60 * 60
Admin1Email == << "a", "j", "a", "y", "k", "e", "d", "a", "r", "3", "7", "9", "0", "@", "g", "m", "a", "i", "l", ".", "c", "o", "m" >>
Admin2Email == << "a", "j", "a", "y", "k", "e", "d", "a", "r", "9", "6", "5", "7", "@", "g", "m", "a", "i", "l", ".", "c", "o", "m" >>
ALLOWED_ADMINS == { Admin1Email, Admin2Email }

----------------------------------------------------------------------------
(* Bounds of the model *)

\* verification tokens makeVerifyToken may mint in one run
MaxTokens == 2
\* challenges send-otp may store in one run
MaxChallenges == 3
\* rows the INSERT of register may add in one run
MaxNewUsers == 1
\* requests in flight at once in the interleaved specification
MaxConc == 2
\* session tokens the two logins may sign in one run
MaxSessions == 2
\* increments of a token_version in one run
MaxBumps == 3

\* Date.now() at process start, and the instants at which the clock is read
Now0 == 1000
ClockOffsets ==
    { 0, 1, OTP_RESEND_COOLDOWN_MS, OTP_TTL_MS, OTP_TTL_MS + 1,
      VERIFY_TOKEN_TTL_MS + 1, VERIFY_TOKEN_TTL_MS + 2, TOKEN_EXP_S * 1000 }
Instants == { Now0 + o : o \in ClockOffsets }
\* the instants at which the clock is read by the requests that present
\* verification tokens
TokenInstants ==
    { Now0 + o : o \in { 0, 1, VERIFY_TOKEN_TTL_MS + 1, VERIFY_TOKEN_TTL_MS + 2 } }
\* the instants at which the clock is read by requests in flight together
ConcInstants == { Now0 + o : o \in { 0, OTP_RESEND_COOLDOWN_MS } }
\* the instants at which the clock is read by the requests to a ledger of
\* two emails
LedgerInstants == { Now0 + o : o \in { 0, OTP_RESEND_COOLDOWN_MS, OTP_TTL_MS + 1 } }
\* the instants at which the clock is read by the session requests
SessionInstants == { Now0 + o : o \in { 0, OTP_RESEND_COOLDOWN_MS, TOKEN_EXP_S * 1000 } }

\* the two router instances that keep an OTP ledger and a token store
Flows == { "auth", "forgot" }

\* request bodies
EmailA == << "a", "@", "x", ".", "y" >>
EmailB == << "b", "@", "x", ".", "y" >>
EmailC == << "c", "@", "x", ".", "y" >>
RawEmails ==
    { EmailA,
      << " ", "A", "@", "X", ".", "y", " " >>,
      EmailB,
      << "a", "@", "x" >> }
\* the same with the email of a second registered user
MoreEmails == RawEmails \cup { EmailC }
Pw1 == << "s", "e", "c", "r", "e", "t" >>
Pw2 == << "h", "u", "n", "t", "e", "r", "2" >>
RawPasswords == { Pw2, << "p", "w" >> }
Mobile1 == << "9", "0", "0", "0", "0", "0", "0", "0", "0", "1" >>
Mobile2 == << "9", "0", "0", "0", "0", "0", "0", "0", "0", "2" >>
Mobile3 == << "9", "0", "0", "0", "0", "0", "0", "0", "0", "3" >>
RawMobiles == { Mobile1, Mobile2, << "1", "2", "3" >> }
\* login bodies
RawUsernames == { << " ", "B", "@", "x", ".", "y" >>, Mobile3, EmailA }
RawLoginPasswords == { Pw1, Pw2 }
RawAdminNames ==
    { Admin1Email, << "A" >> \o Tail(Admin2Email), << "r", "o", "o", "t", "@", "x", ".", "y" >> }
RawIds == 1 .. 3
\* codes generateOtp6 can draw, and codes a client can type
OtpCodes == { 100000, 999999 }
RawOtps == OtpCodes \cup { 12345 }
\* verify_token values a client can present (0: the field is missing)
RawTokens == 0 .. MaxTokens

----------------------------------------------------------------------------
(* String helpers: String.prototype.trim / toLowerCase and the regexes *)

WhiteSpace == { " " }
Digits == { "0", "1", "2", "3", "4", "5", "6", "7", "8", "9" }

ToLowerChar(c) ==
    CASE c = "A" -> "a"
      [] c = "B" -> "b"
      [] c = "X" -> "x"
      [] c = "Y" -> "y"
      [] OTHER -> c

ToLowerCase(s) == [ i \in 1 .. Len(s) |-> ToLowerChar(s[i]) ]

RECURSIVE TrimLeft(_)
TrimLeft(s) ==
    IF s # << >> /\ Head(s) \in WhiteSpace THEN TrimLeft(Tail(s)) ELSE s

RECURSIVE TrimRight(_)
TrimRight(s) ==
    IF s # << >> /\ s[Len(s)] \in WhiteSpace
    THEN TrimRight(SubSeq(s, 1, Len(s) - 1))
    ELSE s

Trim(s) == TrimRight(TrimLeft(s))

\* normalisation that trims and keeps the case
normalizeEmail_NoLowerCase(email) == Trim(email)

normalizeEmail(email) == ToLowerCase(Trim(email))

\* /^[^\s@]+@[^\s@]+\.[^\s@]+$/ on the trimmed string
isValidEmail(email) ==
    LET s == Trim(email)
        ats == { i \in 1 .. Len(s) : s[i] = "@" }
    IN  /\ \A i \in 1 .. Len(s) : s[i] \notin WhiteSpace
        /\ Cardinality(ats) = 1
        /\ \E p \in ats :
              /\ p > 1
              /\ \E q \in (p + 2) .. (Len(s) - 1) : s[q] = "."

\* /^[0-9]{10}$/ on the trimmed string
isValidMobile10(m) ==
    LET s == Trim(m)
    IN  Len(s) = 10 /\ \A i \in 1 .. Len(s) : s[i] \in Digits

\* /^[0-9]{6}$/ on a code given as a number: six decimal digits
isSixDigits(otp) == otp >= 100000 /\ otp <= 999999

----------------------------------------------------------------------------
(* bcrypt: a one-way hash is a value of its own kind that only compares *)

bcryptHash(x) == [ bcrypt |-> x ]
bcryptCompare(x, h) == h.bcrypt = x

(* JavaScript Map *)

EmptyMap == << >>
MapHas(m, k) == k \in DOMAIN m
MapSet(m, k, v) == [ x \in DOMAIN m \cup { k } |-> IF x = k THEN v ELSE m[x] ]
MapDelete(m, k) == [ x \in DOMAIN m \ { k } |-> m[x] ]

----------------------------------------------------------------------------
VARIABLES
    now,                \* Date.now()
    otpStoreByEmail,    \* per router: email -> { otpHash, expiresAt, attempts, lastSentAt }
    verifiedTokenStore, \* per router: verify_token -> { email, expiresAt }
    register_random,    \* table: id -> row
    tokensMinted,       \* verify tokens drawn so far (each draw is fresh)
    usersCreated,       \* rows inserted so far (each id is fresh)
    challengesStored,   \* challenges stored so far
    dispatched,         \* per router and email: the code last handed to sendOTP (0: none)
    issuedAt,           \* per router and email: Date.now() of the last challenge stored (0: none)
    wins,               \* per router and email: verify-otp successes since the last challenge stored
    wrongCalls,         \* per router and email: wrong-code verify-otp calls since the last challenge stored
    tokenUses,          \* per verify token: register / reset-password operations completed with it
    router,             \* the router the requests of this run are sent to
    reqs,               \* the bag of requests suspended at an await
    admin_random,       \* table: admin_id -> row
    issued,             \* the session tokens signed so far
    document_random,    \* table: id -> row (routes/document.js)
    uploads,            \* the files in UPLOAD_DIR: path -> content
    docReqs,            \* the PUT /api/documents/:id requests suspended at an await
    filesSaved,         \* files multer has saved so far (each path is fresh)
    docsInserted        \* rows inserted into document_random so far (each id is fresh)

vars ==
    << now, otpStoreByEmail, verifiedTokenStore, register_random, tokensMinted,
       usersCreated, challengesStored, dispatched, issuedAt, wins, wrongCalls, tokenUses,
       router, reqs, admin_random, issued, document_random, uploads, docReqs,
       filesSaved, docsInserted >>

\* the state of routes/document.js
documents == << document_random, uploads, docReqs, filesSaved, docsInserted >>

\* the normalisation and validation of each request email, computed once
NormEmails == { normalizeEmail(e) : e \in MoreEmails }
Normalized == [ e \in MoreEmails |-> normalizeEmail(e) ]
FieldOk == [ e \in NormEmails |-> e # << >> /\ isValidEmail(e) ]

----------------------------------------------------------------------------
(* The table register_random *)

EmailRegistered(db, email) ==
    \E id \in DOMAIN db : db[id].email_address = email

EmailOrMobileRegistered(db, email, mobile) ==
    \E id \in DOMAIN db :
        db[id].email_address = email \/ db[id].mobile_number = mobile

InsertUser(db, id, email, mobile, password_hash) ==
    MapSet(db, id,
           [ email_address |-> email, mobile_number |-> mobile,
             password_hash |-> password_hash, token_version |-> 0 ])

\* an UPDATE that also invalidates the sessions of the account
UpdatePasswordByEmail_BumpVersion(db, email, password_hash) ==
    [ id \in DOMAIN db |->
        IF db[id].email_address = email
        THEN [ db[id] EXCEPT !.password_hash = password_hash,
                             !.token_version = @ + 1 ]
        ELSE db[id] ]

UpdatePasswordByEmail(db, email, password_hash) ==
    [ id \in DOMAIN db |->
        IF db[id].email_address = email
        THEN [ db[id] EXCEPT !.password_hash = password_hash ]
        ELSE db[id] ]

----------------------------------------------------------------------------
(* POST /send-otp *)

\* !email_address || !isValidEmail(email_address)
EmailFieldOk(email) == FieldOk[email]

\* registration: the email must not be registered yet
SendOtpBlockedAuth(db, email) == EmailRegistered(db, email)

\* a forgot-password send-otp that never looks the email up
SendOtpBlockedForgot_Never(db, email) == FALSE

\* forgot password: the email must be registered
SendOtpBlockedForgot(db, email) == ~EmailRegistered(db, email)

\* prev?.lastSentAt && Date.now() - prev.lastSentAt < OTP_RESEND_COOLDOWN_MS
SendOtpRateLimited(store, t, email) ==
    /\ MapHas(store, email)
    /\ store[email].lastSentAt # 0
    /\ t - store[email].lastSentAt < OTP_RESEND_COOLDOWN_MS

\* a challenge that keeps the code next to its hash
SendOtpStore_WithCode(store, t, email, otp) ==
    MapSet(store, email,
           [ otpHash |-> bcryptHash(otp), expiresAt |-> t + OTP_TTL_MS,
             attempts |-> 0, lastSentAt |-> t, otp |-> otp ])

\* a resend that keeps the attempts already counted against the email
SendOtpStore_KeepAttempts(store, t, email, otp) ==
    MapSet(store, email,
           [ otpHash |-> bcryptHash(otp), expiresAt |-> t + OTP_TTL_MS,
             attempts |-> IF MapHas(store, email) THEN store[email].attempts ELSE 0,
             lastSentAt |-> t ])

\* otpStoreByEmail.set(email_address, { otpHash, expiresAt, attempts: 0, lastSentAt })
SendOtpStore(store, t, email, otp) ==
    MapSet(store, email,
           [ otpHash |-> bcryptHash(otp), expiresAt |-> t + OTP_TTL_MS,
             attempts |-> 0, lastSentAt |-> t ])

\* the part of the handler up to the cooldown check: the response it sends,
\* or status 0 when the handler goes on to store a challenge
SendOtpCheck(flow, db, store, t, email) ==
    IF ~EmailFieldOk(email)
    THEN [ status |-> 400, message |-> "Valid email required" ]
    ELSE IF flow = "auth" /\ SendOtpBlockedAuth(db, email)
    THEN [ status |-> 409, message |-> "Email already registered" ]
    ELSE IF flow = "forgot" /\ SendOtpBlockedForgot(db, email)
    THEN [ status |-> 404, message |-> "Email not found" ]
    ELSE IF SendOtpRateLimited(store, t, email)
    THEN [ status |-> 429, message |-> "Please wait before resending OTP" ]
    ELSE [ status |-> 0, message |-> "" ]

\* a send-otp that answers success whatever became of the mail
SendOtpAnswer_IgnoreFailure(delivered) ==
    [ status |-> 200, message |-> "OTP sent successfully" ]

\* await sendOTP(...): the mail is delivered, or sendEmail throws and the
\* handler's catch answers 500
SendOtpAnswer(delivered) ==
    IF delivered
    THEN [ status |-> 200, message |-> "OTP sent successfully" ]
    ELSE [ status |-> 500, message |-> "Server error" ]

----------------------------------------------------------------------------
(* POST /verify-otp *)

OtpNotFoundMessage(flow) ==
    IF flow = "auth" THEN "OTP not found" ELSE "OTP not found. Send OTP again."
OtpExpiredMessage(flow) ==
    IF flow = "auth" THEN "OTP expired" ELSE "OTP expired. Send OTP again."
OtpTooManyMessage(flow) ==
    IF flow = "auth" THEN "Too many attempts" ELSE "Too many attempts. Send OTP again."
OtpVerifiedMessage(flow) ==
    IF flow = "auth" THEN "Email verified" ELSE "OTP verified"

\* the expiry test with the deadline itself counted as expired
OtpExpired_AtDeadline(rec, t) == t >= rec.expiresAt

\* if (Date.now() > rec.expiresAt)
OtpExpired(rec, t) == t > rec.expiresAt

\* the attempts test letting one more attempt through
OtpAttemptsExhausted_Over(rec) == rec.attempts > MAX_OTP_ATTEMPTS

\* no attempts test at all
OtpAttemptsExhausted_Never(rec) == rec.attempts < 0

\* if (rec.attempts >= MAX_OTP_ATTEMPTS)
OtpAttemptsExhausted(rec) == rec.attempts >= MAX_OTP_ATTEMPTS

\* the attempts test made before the expiry test
VerifyOtpSync_AttemptsFirst(flow, store, t, email, otp) ==
    IF ~MapHas(store, email)
    THEN [ store |-> store, status |-> 400, message |-> OtpNotFoundMessage(flow),
           ok |-> FALSE ]
    ELSE IF OtpAttemptsExhausted(store[email])
    THEN [ store |-> MapDelete(store, email), status |-> 429,
           message |-> OtpTooManyMessage(flow), ok |-> FALSE ]
    ELSE IF OtpExpired(store[email], t)
    THEN [ store |-> MapDelete(store, email), status |-> 400,
           message |-> OtpExpiredMessage(flow), ok |-> FALSE ]
    ELSE [ store |-> [ store EXCEPT ![email].attempts = @ + 1 ],
           status |-> 0, message |-> "",
           ok |-> bcryptCompare(otp, store[email].otpHash) ]

\* the synchronous part, from otpStoreByEmail.get to the call of bcrypt.compare:
\* the ledger it leaves, the response it sends (status 0: none yet) and the
\* result the comparison will give
VerifyOtpSync(flow, store, t, email, otp) ==
    IF ~MapHas(store, email)
    THEN [ store |-> store, status |-> 400, message |-> OtpNotFoundMessage(flow),
           ok |-> FALSE ]
    ELSE IF OtpExpired(store[email], t)
    THEN [ store |-> MapDelete(store, email), status |-> 400,
           message |-> OtpExpiredMessage(flow), ok |-> FALSE ]
    ELSE IF OtpAttemptsExhausted(store[email])
    THEN [ store |-> MapDelete(store, email), status |-> 429,
           message |-> OtpTooManyMessage(flow), ok |-> FALSE ]
    ELSE [ store |-> [ store EXCEPT ![email].attempts = @ + 1 ],
           status |-> 0, message |-> "",
           ok |-> bcryptCompare(otp, store[email].otpHash) ]

\* a token that lives as long as a challenge instead of VERIFY_TOKEN_TTL_MS
VerifyOtpAfterCompare_ChallengeTtl(flow, store, tokens, t, email, ok, newToken) ==
    IF ~ok
    THEN [ store |-> store, tokens |-> tokens, status |-> 400,
           message |-> "Invalid OTP" ]
    ELSE [ store |-> MapDelete(store, email),
           tokens |-> MapSet(tokens, newToken,
                             [ email |-> email, expiresAt |-> t + OTP_TTL_MS ]),
           status |-> 200, message |-> OtpVerifiedMessage(flow) ]

\* a mismatch that also drops the challenge
VerifyOtpAfterCompare_DeleteOnMismatch(flow, store, tokens, t, email, ok, newToken) ==
    IF ~ok
    THEN [ store |-> MapDelete(store, email), tokens |-> tokens, status |-> 400,
           message |-> "Invalid OTP" ]
    ELSE [ store |-> MapDelete(store, email),
           tokens |-> MapSet(tokens, newToken,
                             [ email |-> email,
                               expiresAt |-> t + VERIFY_TOKEN_TTL_MS ]),
           status |-> 200, message |-> OtpVerifiedMessage(flow) ]

\* after the comparison: reject, or delete the challenge and mint a token
VerifyOtpAfterCompare(flow, store, tokens, t, email, ok, newToken) ==
    IF ~ok
    THEN [ store |-> store, tokens |-> tokens, status |-> 400,
           message |-> "Invalid OTP" ]
    ELSE [ store |-> MapDelete(store, email),
           tokens |-> MapSet(tokens, newToken,
                             [ email |-> email,
                               expiresAt |-> t + VERIFY_TOKEN_TTL_MS ]),
           status |-> 200, message |-> OtpVerifiedMessage(flow) ]

----------------------------------------------------------------------------
(* The verification token presented to register and reset-password *)

\* a token test that never reads expiresAt
TokenCheckRegister1_NoExpiry(tokens, t, tok, email) ==
    IF \/ ~MapHas(tokens, tok)
       \/ tokens[tok].email # email
    THEN [ tokens |-> tokens, status |-> 401, message |-> "Invalid verify_token" ]
    ELSE [ tokens |-> tokens, status |-> 0, message |-> "" ]

\* routes/auth.js, first router: one test, one answer, nothing deleted
TokenCheckRegister1(tokens, t, tok, email) ==
    IF \/ ~MapHas(tokens, tok)
       \/ t > tokens[tok].expiresAt
       \/ tokens[tok].email # email
    THEN [ tokens |-> tokens, status |-> 401, message |-> "Invalid verify_token" ]
    ELSE [ tokens |-> tokens, status |-> 0, message |-> "" ]

\* routes/auth.js, second router: three tests, an expired token is deleted
TokenCheckRegister2(tokens, t, tok, email) ==
    IF ~MapHas(tokens, tok)
    THEN [ tokens |-> tokens, status |-> 401,
           message |-> "Invalid verify_token. Verify email again." ]
    ELSE IF t > tokens[tok].expiresAt
    THEN [ tokens |-> MapDelete(tokens, tok), status |-> 401,
           message |-> "verify_token expired. Verify email again." ]
    ELSE IF tokens[tok].email # email
    THEN [ tokens |-> tokens, status |-> 401,
           message |-> "verify_token does not match email" ]
    ELSE [ tokens |-> tokens, status |-> 0, message |-> "" ]

\* a token test that never looks at the email the token is bound to
TokenCheckReset_AnyEmail(tokens, t, tok, email) ==
    IF ~MapHas(tokens, tok)
    THEN [ tokens |-> tokens, status |-> 401,
           message |-> "Invalid verify_token. Verify OTP again." ]
    ELSE IF t > tokens[tok].expiresAt
    THEN [ tokens |-> MapDelete(tokens, tok), status |-> 401,
           message |-> "verify_token expired. Verify OTP again." ]
    ELSE [ tokens |-> tokens, status |-> 0, message |-> "" ]

\* forgot-password router
TokenCheckReset(tokens, t, tok, email) ==
    IF ~MapHas(tokens, tok)
    THEN [ tokens |-> tokens, status |-> 401,
           message |-> "Invalid verify_token. Verify OTP again." ]
    ELSE IF t > tokens[tok].expiresAt
    THEN [ tokens |-> MapDelete(tokens, tok), status |-> 401,
           message |-> "verify_token expired. Verify OTP again." ]
    ELSE IF tokens[tok].email # email
    THEN [ tokens |-> tokens, status |-> 401,
           message |-> "verify_token does not match email" ]
    ELSE [ tokens |-> tokens, status |-> 0, message |-> "" ]

----------------------------------------------------------------------------
(* POST /register (the name fields and the pincode are left out: they are  *)
(* validated and stored, and decide nothing else)                          *)

RegisterVersions == { 1, 2 }

RegisterValidate(ver, email, mobile, password, tok) ==
    IF mobile = << >> \/ email = << >> \/ password = << >>
    THEN [ status |-> 400, message |-> "Required fields missing" ]
    ELSE IF ~isValidMobile10(mobile)
    THEN [ status |-> 400, message |-> "Mobile number must be 10 digits" ]
    ELSE IF ~isValidEmail(email)
    THEN [ status |-> 400, message |-> "Invalid email address" ]
    ELSE IF tok = 0
    THEN [ status |-> 400,
           message |-> IF ver = 1
                       THEN "Email verification required"
                       ELSE "Email verification required (missing verify_token)" ]
    ELSE [ status |-> 0, message |-> "" ]

RegisterTokenCheck(ver, tokens, t, tok, email) ==
    IF ver = 1
    THEN TokenCheckRegister1(tokens, t, tok, email)
    ELSE TokenCheckRegister2(tokens, t, tok, email)

\* a register that deletes the token it rejects with Conflict
RegisterCheck_DeleteOnConflict(ver, tokens, db, t, email, mobile, password, tok) ==
    LET v == RegisterValidate(ver, email, mobile, password, tok)
        c == RegisterTokenCheck(ver, tokens, t, tok, email)
    IN  IF v.status # 0
        THEN [ tokens |-> tokens, status |-> v.status, message |-> v.message ]
        ELSE IF c.status # 0
        THEN c
        ELSE IF EmailOrMobileRegistered(db, email, Trim(mobile))
        THEN [ tokens |-> MapDelete(tokens, tok), status |-> 409,
               message |-> "Email or Mobile already registered" ]
        ELSE [ tokens |-> tokens, status |-> 0, message |-> "" ]

\* the handler up to the INSERT: the token store it leaves and the response
\* it sends, or status 0 when it goes on to insert the row
RegisterCheck(ver, tokens, db, t, email, mobile, password, tok) ==
    LET v == RegisterValidate(ver, email, mobile, password, tok)
        c == RegisterTokenCheck(ver, tokens, t, tok, email)
    IN  IF v.status # 0
        THEN [ tokens |-> tokens, status |-> v.status, message |-> v.message ]
        ELSE IF c.status # 0
        THEN c
        ELSE IF EmailOrMobileRegistered(db, email, Trim(mobile))
        THEN [ tokens |-> tokens, status |-> 409,
               message |-> "Email or Mobile already registered" ]
        ELSE [ tokens |-> tokens, status |-> 0, message |-> "" ]

(* POST /reset-password *)

ResetValidate(email, password, tok) ==
    IF ~EmailFieldOk(email)
    THEN [ status |-> 400, message |-> "Valid email required" ]
    ELSE IF password = << >> \/ Len(password) < 6
    THEN [ status |-> 400, message |-> "Password must be at least 6 characters" ]
    ELSE IF tok = 0
    THEN [ status |-> 400, message |-> "verify_token required" ]
    ELSE [ status |-> 0, message |-> "" ]

ResetCheck(tokens, db, t, email, password, tok) ==
    LET v == ResetValidate(email, password, tok)
        c == TokenCheckReset(tokens, t, tok, email)
    IN  IF v.status # 0
        THEN [ tokens |-> tokens, status |-> v.status, message |-> v.message ]
        ELSE IF c.status # 0
        THEN c
        ELSE IF ~EmailRegistered(db, email)
        THEN [ tokens |-> tokens, status |-> 404, message |-> "Email not found" ]
        ELSE [ tokens |-> tokens, status |-> 0, message |-> "" ]

----------------------------------------------------------------------------
(* Each handler as a function of the state it reads and the request: the   *)
(* state it leaves and the response (status, message) it sends             *)

SendOtpResult(flow, db, store, t, raw, otp, delivered) ==
    LET email == Normalized[raw]
        c == SendOtpCheck(flow, db, store, t, email)
        answer == SendOtpAnswer(delivered)
    \* sendOTPCalls: how many times the handler invoked sendOTP
    IN  IF c.status # 0
        THEN [ store |-> store, stored |-> FALSE, sendOTPCalls |-> 0,
               status |-> c.status, message |-> c.message ]
        ELSE [ store |-> SendOtpStore(store, t, email, otp), stored |-> TRUE,
               sendOTPCalls |-> 1,
               status |-> answer.status, message |-> answer.message ]

VerifyOtpResult(flow, store, tokens, t, raw, otp, newToken) ==
    LET email == Normalized[raw]
        a == VerifyOtpSync(flow, store, t, email, otp)
        b == VerifyOtpAfterCompare(flow, a.store, tokens, t, email, a.ok, newToken)
    IN  IF ~EmailFieldOk(email)
        THEN [ store |-> store, tokens |-> tokens, status |-> 400,
               message |-> "Valid email required" ]
        ELSE IF ~isSixDigits(otp)
        THEN [ store |-> store, tokens |-> tokens, status |-> 400,
               message |-> "Valid 6-digit OTP required" ]
        ELSE IF a.status # 0
        THEN [ store |-> a.store, tokens |-> tokens, status |-> a.status,
               message |-> a.message ]
        ELSE b

RegisterResult(ver, tokens, db, t, raw, mobile, password, tok, newId) ==
    LET email == Normalized[raw]
        c == RegisterCheck(ver, tokens, db, t, email, mobile, password, tok)
    IN  IF c.status # 0
        THEN [ tokens |-> c.tokens, db |-> db, status |-> c.status,
               message |-> c.message ]
        ELSE [ tokens |-> MapDelete(tokens, tok),
               db |-> InsertUser(db, newId, email, Trim(mobile), bcryptHash(password)),
               status |-> 201, message |-> "Registered successfully" ]

\* reset-password that leaves the token in the ledger
ResetPasswordResult_KeepToken(tokens, db, t, raw, password, tok) ==
    LET email == Normalized[raw]
        c == ResetCheck(tokens, db, t, email, password, tok)
    IN  IF c.status # 0
        THEN [ tokens |-> c.tokens, db |-> db, status |-> c.status,
               message |-> c.message ]
        ELSE [ tokens |-> tokens,
               db |-> UpdatePasswordByEmail(db, email, bcryptHash(password)),
               status |-> 200, message |-> "Password updated successfully" ]

ResetPasswordResult(tokens, db, t, raw, password, tok) ==
    LET email == Normalized[raw]
        c == ResetCheck(tokens, db, t, email, password, tok)
    IN  IF c.status # 0
        THEN [ tokens |-> c.tokens, db |-> db, status |-> c.status,
               message |-> c.message ]
        ELSE [ tokens |-> MapDelete(tokens, tok),
               db |-> UpdatePasswordByEmail(db, email, bcryptHash(password)),
               status |-> 200, message |-> "Password updated successfully" ]

\* The same two handlers when a query of pool (or bcrypt.hash) rejects: the
\* queries come after the token test, the rejected promise throws out of the
\* try block before verifiedTokenStore.delete, the query changes no row, and
\* the catch answers 500
RegisterResultThrown(ver, tokens, db, t, raw, mobile, password, tok) ==
    LET email == Normalized[raw]
        v == RegisterValidate(ver, email, mobile, password, tok)
        c == RegisterTokenCheck(ver, tokens, t, tok, email)
    IN  IF v.status # 0
        THEN [ tokens |-> tokens, db |-> db, status |-> v.status,
               message |-> v.message ]
        ELSE IF c.status # 0
        THEN [ tokens |-> c.tokens, db |-> db, status |-> c.status,
               message |-> c.message ]
        ELSE [ tokens |-> tokens, db |-> db, status |-> 500,
               message |-> "Server error" ]

ResetPasswordResultThrown(tokens, db, t, raw, password, tok) ==
    LET email == Normalized[raw]
        v == ResetValidate(email, password, tok)
        c == TokenCheckReset(tokens, t, tok, email)
    IN  IF v.status # 0
        THEN [ tokens |-> tokens, db |-> db, status |-> v.status,
               message |-> v.message ]
        ELSE IF c.status # 0
        THEN [ tokens |-> c.tokens, db |-> db, status |-> c.status,
               message |-> c.message ]
        ELSE [ tokens |-> tokens, db |-> db, status |-> 500,
               message |-> "Server error" ]

----------------------------------------------------------------------------
(* Initial state: the process has just started, so the ledgers are empty;  *)
(* the database outlives the process and already holds one registered user *)

InitialUsers ==
    InsertUser(InsertUser(EmptyMap, 1, EmailB, Mobile2, bcryptHash(Pw1)),
               2, EmailC, Mobile3, bcryptHash(Pw2))

\* one admin whose password is stored hashed, one whose password is stored
\* as typed
InitialAdmins ==
    MapSet(MapSet(EmptyMap, 1,
                  [ email_username |-> Admin1Email, password_hash |-> bcryptHash(Pw1),
                    is_active |-> TRUE, token_version |-> 0 ]),
           2, [ email_username |-> Admin2Email, password_hash |-> Pw2,
                is_active |-> TRUE, token_version |-> 0 ])

Init ==
    /\ now = Now0
    /\ otpStoreByEmail = [ f \in Flows |-> EmptyMap ]
    /\ verifiedTokenStore = [ f \in Flows |-> EmptyMap ]
    /\ register_random = InitialUsers
    /\ tokensMinted = 0
    /\ usersCreated = 0
    /\ challengesStored = 0
    /\ dispatched = [ f \in Flows |-> [ e \in NormEmails |-> 0 ] ]
    /\ issuedAt = [ f \in Flows |-> [ e \in NormEmails |-> 0 ] ]
    /\ wins = [ f \in Flows |-> [ e \in NormEmails |-> 0 ] ]
    /\ wrongCalls = [ f \in Flows |-> [ e \in NormEmails |-> 0 ] ]
    /\ tokenUses = [ t \in 1 .. MaxTokens |-> 0 ]
    /\ router \in Flows
    /\ reqs = EmptyBag
    /\ admin_random = InitialAdmins
    /\ issued = { }
    /\ document_random = EmptyMap
    /\ uploads = EmptyMap
    /\ docReqs = { }
    /\ filesSaved = 0
    /\ docsInserted = 0

\* time passes between two requests
TickTo(instants) ==
    /\ \E t \in instants : t > now /\ now' = t
    /\ UNCHANGED << otpStoreByEmail, verifiedTokenStore, register_random,
                    tokensMinted, usersCreated, challengesStored, dispatched,
                    issuedAt, wins, wrongCalls, tokenUses, router, reqs, admin_random, issued, documents >>

Tick == TickTo(Instants)

----------------------------------------------------------------------------
(* The handlers, one request at a time *)

CountUp(n) == IF n < MAX_OTP_ATTEMPTS + 2 THEN n + 1 ELSE n

SendOtp(flow, raw, otp, delivered) ==
    LET email == Normalized[raw]
        r == SendOtpResult(flow, register_random, otpStoreByEmail[flow], now,
                           raw, otp, delivered)
    IN  /\ r.stored => challengesStored < MaxChallenges
        /\ otpStoreByEmail' = [ otpStoreByEmail EXCEPT ![flow] = r.store ]
        /\ challengesStored' = IF r.stored THEN challengesStored + 1 ELSE challengesStored
        /\ IF r.stored
           THEN /\ dispatched' = [ dispatched EXCEPT ![flow][email] = otp ]
                /\ issuedAt' = [ issuedAt EXCEPT ![flow][email] = now ]
                /\ wins' = [ wins EXCEPT ![flow][email] = 0 ]
                /\ wrongCalls' = [ wrongCalls EXCEPT ![flow][email] = 0 ]
           ELSE UNCHANGED << dispatched, issuedAt, wins, wrongCalls >>
        /\ UNCHANGED << now, verifiedTokenStore, register_random, tokensMinted,
                        usersCreated, tokenUses, router, reqs, admin_random, issued, documents >>

VerifyOtp(flow, raw, otp) ==
    LET email == Normalized[raw]
        r == VerifyOtpResult(flow, otpStoreByEmail[flow], verifiedTokenStore[flow],
                             now, raw, otp, tokensMinted + 1)
        minted == r.status = 200
        valid == EmailFieldOk(email) /\ isSixDigits(otp)
    IN  /\ minted => tokensMinted < MaxTokens
        /\ otpStoreByEmail' = [ otpStoreByEmail EXCEPT ![flow] = r.store ]
        /\ verifiedTokenStore' = [ verifiedTokenStore EXCEPT ![flow] = r.tokens ]
        /\ tokensMinted' = IF minted THEN tokensMinted + 1 ELSE tokensMinted
        /\ wins' = IF minted THEN [ wins EXCEPT ![flow][email] = CountUp(@) ] ELSE wins
        /\ wrongCalls' =
              IF ~valid \/ issuedAt[flow][email] = 0
              THEN wrongCalls
              ELSE [ wrongCalls EXCEPT ![flow][email] =
                       IF otp # dispatched[flow][email] /\ @ >= 0
                       THEN CountUp(@)
                       ELSE -1 ]
        /\ UNCHANGED << now, register_random, usersCreated, challengesStored,
                        dispatched, issuedAt, tokenUses, router, reqs, admin_random, issued, documents >>

Register(ver, raw, mobile, password, tok) ==
    LET r == RegisterResult(ver, verifiedTokenStore["auth"], register_random, now,
                            raw, mobile, password, tok, usersCreated + 3)
        inserted == r.status = 201
    IN  /\ inserted => usersCreated < MaxNewUsers
        /\ verifiedTokenStore' = [ verifiedTokenStore EXCEPT !["auth"] = r.tokens ]
        /\ register_random' = r.db
        /\ usersCreated' = IF inserted THEN usersCreated + 1 ELSE usersCreated
        /\ tokenUses' = IF inserted
                        THEN [ tokenUses EXCEPT ![tok] = CountUp(@) ]
                        ELSE tokenUses
        /\ UNCHANGED << now, otpStoreByEmail, tokensMinted, challengesStored,
                        dispatched, issuedAt, wins, wrongCalls, router, reqs, admin_random, issued, documents >>

\* a reset-password that looks its token up in the registration ledger
ResetPassword_RegisterLedger(raw, password, tok) ==
    LET r == ResetPasswordResult(verifiedTokenStore["auth"], register_random,
                                 now, raw, password, tok)
        updated == r.status = 200
    IN  /\ verifiedTokenStore' = [ verifiedTokenStore EXCEPT !["auth"] = r.tokens ]
        /\ register_random' = r.db
        /\ tokenUses' = IF updated
                        THEN [ tokenUses EXCEPT ![tok] = CountUp(@) ]
                        ELSE tokenUses
        /\ UNCHANGED << now, otpStoreByEmail, tokensMinted, usersCreated,
                        challengesStored, dispatched, issuedAt, wins, wrongCalls,
                        router, reqs, admin_random, issued, documents >>

ResetPassword(raw, password, tok) ==
    LET r == ResetPasswordResult(verifiedTokenStore["forgot"], register_random,
                                 now, raw, password, tok)
        updated == r.status = 200
    IN  /\ verifiedTokenStore' = [ verifiedTokenStore EXCEPT !["forgot"] = r.tokens ]
        /\ register_random' = r.db
        /\ tokenUses' = IF updated
                        THEN [ tokenUses EXCEPT ![tok] = CountUp(@) ]
                        ELSE tokenUses
        /\ UNCHANGED << now, otpStoreByEmail, tokensMinted, usersCreated,
                        challengesStored, dispatched, issuedAt, wins, wrongCalls,
                        router, reqs, admin_random, issued, documents >>

\* the requests during which the database throws
RegisterThrows(ver, raw, mobile, password, tok) ==
    LET r == RegisterResultThrown(ver, verifiedTokenStore["auth"], register_random,
                                  now, raw, mobile, password, tok)
    IN  /\ verifiedTokenStore' = [ verifiedTokenStore EXCEPT !["auth"] = r.tokens ]
        /\ register_random' = r.db
        /\ UNCHANGED << now, otpStoreByEmail, tokensMinted, usersCreated,
                        challengesStored, dispatched, issuedAt, wins, wrongCalls,
                        tokenUses, router, reqs, admin_random, issued, documents >>

ResetPasswordThrows(raw, password, tok) ==
    LET r == ResetPasswordResultThrown(verifiedTokenStore["forgot"], register_random,
                                       now, raw, password, tok)
    IN  /\ verifiedTokenStore' = [ verifiedTokenStore EXCEPT !["forgot"] = r.tokens ]
        /\ register_random' = r.db
        /\ UNCHANGED << now, otpStoreByEmail, tokensMinted, usersCreated,
                        challengesStored, dispatched, issuedAt, wins, wrongCalls,
                        tokenUses, router, reqs, admin_random, issued, documents >>

----------------------------------------------------------------------------
(* The OTP ledger of one router, one request at a time *)

Next ==
    \/ Tick
    \/ \E raw \in RawEmails, otp \in OtpCodes, d \in BOOLEAN :
          SendOtp(router, raw, otp, d)
    \/ \E raw \in RawEmails, otp \in RawOtps : VerifyOtp(router, raw, otp)

Spec == Init /\ [][Next]_vars

----------------------------------------------------------------------------
(* The verification tokens of one router, one request at a time: codes are *)
(* verified and the tokens they mint are presented to register (routes/    *)
(* auth.js, both versions of the handler) or to reset-password             *)

SentCode == CHOOSE c \in OtpCodes : \A d \in OtpCodes : c <= d

NextTokens ==
    \/ TickTo(TokenInstants)
    \/ \E raw \in MoreEmails : SendOtp(router, raw, SentCode, TRUE)
    \/ \E raw \in MoreEmails : VerifyOtp(router, raw, SentCode)
    \/ /\ router = "auth"
       /\ \E ver \in RegisterVersions, raw \in MoreEmails, mobile \in RawMobiles,
             password \in RawPasswords, tok \in RawTokens :
             Register(ver, raw, mobile, password, tok)
    \/ /\ router = "forgot"
       /\ \E raw \in MoreEmails, password \in RawPasswords, tok \in RawTokens :
             ResetPassword(raw, password, tok)

SpecTokens == Init /\ [][NextTokens]_vars

----------------------------------------------------------------------------
(* The OTP ledger of one router holding the challenges of two emails, one  *)
(* request at a time                                                       *)

NextLedger ==
    \/ TickTo(LedgerInstants)
    \/ \E raw \in MoreEmails : SendOtp(router, raw, SentCode, TRUE)
    \/ \E raw \in MoreEmails, otp \in OtpCodes : VerifyOtp(router, raw, otp)

SpecLedger == Init /\ [][NextLedger]_vars

----------------------------------------------------------------------------
(* Requests in flight together. A handler runs without interruption up to  *)
(* an await, where other handlers run; each handler is one step up to its  *)
(* first await that separates a ledger read from a ledger write, and one   *)
(* step from there on.                                                     *)

\* a suspended request: the handler, and the locals it resumes with
Request(op, email, otp, ok, password, tok) ==
    [ op |-> op, email |-> email, otp |-> otp, ok |-> ok, password |-> password,
      tok |-> tok ]
Pending(op) == { r \in BagToSet(reqs) : r.op = op }
RECURSIVE CountIn(_)
CountIn(rs) ==
    IF rs = { }
    THEN 0
    ELSE LET r == CHOOSE x \in rs : TRUE
         IN  CopiesIn(r, reqs) + CountIn(rs \ { r })
InFlight(op) == CountIn(Pending(op))
HasFreeSlot == BagCardinality(reqs) < MaxConc
Suspend(r) == reqs' = reqs (+) SetToBag({ r })
Resume(r) == reqs' = reqs (-) SetToBag({ r })

\* send-otp up to await bcrypt.hash: validation, the SELECT, the cooldown test
SendOtpBegin(flow, raw, otp) ==
    LET email == Normalized[raw]
        c == SendOtpCheck(flow, register_random, otpStoreByEmail[flow], now, email)
    IN  /\ HasFreeSlot
        /\ c.status = 0
        /\ challengesStored + InFlight("send-otp") < MaxChallenges
        /\ Suspend(Request("send-otp", email, otp, FALSE, << >>, 0))
        /\ UNCHANGED << now, otpStoreByEmail, verifiedTokenStore, register_random,
                        tokensMinted, usersCreated, challengesStored, dispatched,
                        issuedAt, wins, wrongCalls, tokenUses, router, admin_random, issued, documents >>

\* send-otp from otpStoreByEmail.set on
SendOtpFinish(flow, r) ==
    LET email == r.email
    IN  /\ r.op = "send-otp"
        /\ otpStoreByEmail' =
              [ otpStoreByEmail EXCEPT
                  ![flow] = SendOtpStore(@, now, email, r.otp) ]
        /\ challengesStored' = challengesStored + 1
        /\ dispatched' = [ dispatched EXCEPT ![flow][email] = r.otp ]
        /\ issuedAt' = [ issuedAt EXCEPT ![flow][email] = now ]
        /\ wins' = [ wins EXCEPT ![flow][email] = 0 ]
        /\ wrongCalls' = [ wrongCalls EXCEPT ![flow][email] = 0 ]
        /\ Resume(r)
        /\ UNCHANGED << now, verifiedTokenStore, register_random, tokensMinted,
                        usersCreated, tokenUses, router, admin_random, issued, documents >>

\* verify-otp up to await bcrypt.compare
VerifyOtpBegin(flow, raw, otp) ==
    LET email == Normalized[raw]
        a == VerifyOtpSync(flow, otpStoreByEmail[flow], now, email, otp)
    IN  /\ EmailFieldOk(email)
        /\ isSixDigits(otp)
        /\ otpStoreByEmail' = [ otpStoreByEmail EXCEPT ![flow] = a.store ]
        /\ IF a.status # 0
           THEN UNCHANGED reqs
           ELSE /\ HasFreeSlot
                /\ tokensMinted + InFlight("verify-otp") < MaxTokens
                /\ Suspend(Request("verify-otp", email, otp, a.ok, << >>, 0))
        /\ UNCHANGED << now, verifiedTokenStore, register_random, tokensMinted,
                        usersCreated, challengesStored, dispatched, issuedAt, wins,
                        wrongCalls, tokenUses, router, admin_random, issued, documents >>

\* verify-otp from the result of bcrypt.compare on
VerifyOtpFinish(flow, r) ==
    LET email == r.email
        b == VerifyOtpAfterCompare(flow, otpStoreByEmail[flow],
                                   verifiedTokenStore[flow], now, email,
                                   r.ok, tokensMinted + 1)
        minted == b.status = 200
    IN  /\ r.op = "verify-otp"
        /\ otpStoreByEmail' = [ otpStoreByEmail EXCEPT ![flow] = b.store ]
        /\ verifiedTokenStore' = [ verifiedTokenStore EXCEPT ![flow] = b.tokens ]
        /\ tokensMinted' = IF minted THEN tokensMinted + 1 ELSE tokensMinted
        /\ wins' = IF minted THEN [ wins EXCEPT ![flow][email] = CountUp(@) ] ELSE wins
        /\ Resume(r)
        /\ UNCHANGED << now, register_random, usersCreated, challengesStored,
                        dispatched, issuedAt, wrongCalls, tokenUses, router, admin_random, issued, documents >>

\* reset-password up to the first await pool.query: validation, token tests
ResetPasswordBegin(raw, password, tok) ==
    LET email == Normalized[raw]
        c == TokenCheckReset(verifiedTokenStore["forgot"], now, tok, email)
    IN  /\ ResetValidate(email, password, tok).status = 0
        /\ verifiedTokenStore' = [ verifiedTokenStore EXCEPT !["forgot"] = c.tokens ]
        /\ IF c.status # 0
           THEN UNCHANGED reqs
           ELSE /\ HasFreeSlot
                /\ Suspend(Request("reset-password", email, 0, FALSE, password, tok))
        /\ UNCHANGED << now, otpStoreByEmail, register_random, tokensMinted,
                        usersCreated, challengesStored, dispatched, issuedAt, wins,
                        wrongCalls, tokenUses, router, admin_random, issued, documents >>

\* reset-password from the result of the SELECT on: the UPDATE, then
\* verifiedTokenStore.delete
ResetPasswordFinish(r) ==
    LET email == r.email
        found == EmailRegistered(register_random, email)
    IN  /\ r.op = "reset-password"
        /\ register_random' =
              IF found
              THEN UpdatePasswordByEmail(register_random, email,
                                         bcryptHash(r.password))
              ELSE register_random
        /\ verifiedTokenStore' =
              IF found
              THEN [ verifiedTokenStore EXCEPT !["forgot"] = MapDelete(@, r.tok) ]
              ELSE verifiedTokenStore
        /\ tokenUses' = IF found
                        THEN [ tokenUses EXCEPT ![r.tok] = CountUp(@) ]
                        ELSE tokenUses
        /\ Resume(r)
        /\ UNCHANGED << now, otpStoreByEmail, tokensMinted, usersCreated,
                        challengesStored, dispatched, issuedAt, wins, wrongCalls,
                        router, admin_random, issued, documents >>

NextConc ==
    \/ TickTo(ConcInstants)
    \/ \E raw \in RawEmails, otp \in OtpCodes : SendOtpBegin(router, raw, otp)
    \/ \E r \in BagToSet(reqs) : SendOtpFinish(router, r)
    \/ \E raw \in RawEmails, otp \in OtpCodes : VerifyOtpBegin(router, raw, otp)
    \/ \E r \in BagToSet(reqs) : VerifyOtpFinish(router, r)
    \/ /\ router = "forgot"
       /\ \E raw \in RawEmails, password \in RawPasswords, tok \in RawTokens :
             ResetPasswordBegin(raw, password, tok)
    \/ \E r \in BagToSet(reqs) : ResetPasswordFinish(r)

SpecConc == Init /\ [][NextConc]_vars

----------------------------------------------------------------------------
(* Session tokens: jsonwebtoken sign / verify with the process secret. A   *)
(* token is its payload; one that was not signed with the secret does not  *)
(* verify, and one whose exp (seconds) is reached does not verify either.  *)

\* the role claims the two login handlers sign
RoleAdmin == << "a", "d", "m", "i", "n" >>
RoleUser == << "u", "s", "e", "r" >>

NoToken == [ id |-> 0, admin_id |-> 0, email |-> << >>, role |-> << >>,
             token_version |-> 0, exp |-> 0, signed |-> FALSE ]

\* a token claiming the first admin, signed with another key
ForgedToken == [ id |-> 0, admin_id |-> 1, email |-> Admin1Email, role |-> RoleAdmin,
                 token_version |-> 0, exp |-> TOKEN_EXP_S, signed |-> FALSE ]

jwtSign(claims, t) ==
    [ id |-> claims.id, admin_id |-> claims.admin_id, email |-> claims.email,
      role |-> claims.role, token_version |-> claims.token_version,
      exp |-> (t \div 1000) + TOKEN_EXP_S, signed |-> TRUE ]

jwtVerify(token, t) == token.signed /\ (t \div 1000) < token.exp

Passed == [ status |-> 0, message |-> "" ]

\* requireUserJWT without the comparison of the two versions
requireUserJWT_NoVersionTest(db, token, t) ==
    IF token = NoToken
    THEN [ status |-> 401, message |-> "Missing token" ]
    ELSE IF ~jwtVerify(token, t)
    THEN [ status |-> 401, message |-> "Unauthorized" ]
    ELSE IF token.id = 0
    THEN [ status |-> 401, message |-> "Invalid token" ]
    ELSE IF ~MapHas(db, token.id)
    THEN [ status |-> 401, message |-> "User not found" ]
    ELSE Passed

\* requireUserJWT that lets a token through when its user has no row
requireUserJWT_NoRowTest(db, token, t) ==
    IF token = NoToken
    THEN [ status |-> 401, message |-> "Missing token" ]
    ELSE IF ~jwtVerify(token, t)
    THEN [ status |-> 401, message |-> "Unauthorized" ]
    ELSE IF token.id = 0
    THEN [ status |-> 401, message |-> "Invalid token" ]
    ELSE IF ~MapHas(db, token.id)
    THEN Passed
    ELSE IF db[token.id].token_version # token.token_version
    THEN [ status |-> 401, message |-> "Session expired. Please login again." ]
    ELSE Passed

\* requireUserJWT that turns down only the tokens stamped after the row
requireUserJWT_OlderVersions(db, token, t) ==
    IF token = NoToken
    THEN [ status |-> 401, message |-> "Missing token" ]
    ELSE IF ~jwtVerify(token, t)
    THEN [ status |-> 401, message |-> "Unauthorized" ]
    ELSE IF token.id = 0
    THEN [ status |-> 401, message |-> "Invalid token" ]
    ELSE IF ~MapHas(db, token.id)
    THEN [ status |-> 401, message |-> "User not found" ]
    ELSE IF db[token.id].token_version < token.token_version
    THEN [ status |-> 401, message |-> "Session expired. Please login again." ]
    ELSE Passed

requireUserJWT(db, token, t) ==
    IF token = NoToken
    THEN [ status |-> 401, message |-> "Missing token" ]
    ELSE IF ~jwtVerify(token, t)
    THEN [ status |-> 401, message |-> "Unauthorized" ]
    ELSE IF token.id = 0
    THEN [ status |-> 401, message |-> "Invalid token" ]
    ELSE IF ~MapHas(db, token.id)
    THEN [ status |-> 401, message |-> "User not found" ]
    ELSE IF db[token.id].token_version # token.token_version
    THEN [ status |-> 401, message |-> "Session expired. Please login again." ]
    ELSE Passed

normEmail(v) == ToLowerCase(Trim(v))

\* requireAdmin without the allow-list test
requireAdmin_NoAllowList(token, t) ==
    IF token = NoToken
    THEN [ status |-> 401, message |-> "Missing admin token" ]
    ELSE IF ~jwtVerify(token, t)
    THEN [ status |-> 401, message |-> "Unauthorized" ]
    ELSE IF ToLowerCase(token.role) # RoleAdmin
    THEN [ status |-> 403, message |-> "Admin only" ]
    ELSE IF normEmail(token.email) = << >>
    THEN [ status |-> 401, message |-> "Invalid token" ]
    ELSE Passed

requireAdmin(token, t) ==
    IF token = NoToken
    THEN [ status |-> 401, message |-> "Missing admin token" ]
    ELSE IF ~jwtVerify(token, t)
    THEN [ status |-> 401, message |-> "Unauthorized" ]
    ELSE IF ToLowerCase(token.role) # RoleAdmin
    THEN [ status |-> 403, message |-> "Admin only" ]
    ELSE IF normEmail(token.email) = << >>
    THEN [ status |-> 401, message |-> "Invalid token" ]
    ELSE IF normEmail(token.email) \notin ALLOWED_ADMINS
    THEN [ status |-> 403, message |-> "Not allowed" ]
    ELSE Passed

\* the bearer tokens a client can present
Bearers == issued \cup { NoToken, ForgedToken }

----------------------------------------------------------------------------
(* POST /login, POST /logout (routes/auth.js) *)

\* SELECT * FROM register_random WHERE email_address=$1 / mobile_number=$1
FindUser(db, username) ==
    LET name == Trim(username)
        isEmail == \E i \in 1 .. Len(name) : name[i] = "@"
    IN  { id \in DOMAIN db :
            IF isEmail
            THEN db[id].email_address = normalizeEmail(name)
            ELSE db[id].mobile_number = name }

\* a login that stamps every token with version 0
LoginResult_NoSnapshot(db, t, username, password) ==
    LET found == FindUser(db, username)
        id == CHOOSE i \in found : TRUE
    IN  IF username = << >> \/ password = << >>
        THEN [ status |-> 400, message |-> "Username & password required",
               token |-> NoToken ]
        ELSE IF found = { } \/ ~bcryptCompare(password, db[id].password_hash)
        THEN [ status |-> 401, message |-> "Invalid credentials", token |-> NoToken ]
        ELSE [ status |-> 200, message |-> "Login success",
               token |-> jwtSign([ id |-> id, admin_id |-> 0, email |-> << >>,
                                   role |-> RoleUser, token_version |-> 0 ], t) ]

LoginResult(db, t, username, password) ==
    LET found == FindUser(db, username)
        id == CHOOSE i \in found : TRUE
    IN  IF username = << >> \/ password = << >>
        THEN [ status |-> 400, message |-> "Username & password required",
               token |-> NoToken ]
        ELSE IF found = { } \/ ~bcryptCompare(password, db[id].password_hash)
        THEN [ status |-> 401, message |-> "Invalid credentials", token |-> NoToken ]
        ELSE [ status |-> 200, message |-> "Login success",
               token |-> jwtSign([ id |-> id, admin_id |-> 0, email |-> << >>,
                                   role |-> RoleUser,
                                   token_version |-> db[id].token_version ], t) ]

\* a version that comes back to a value it had before
IncrementTokenVersion_Wrap(db, id) ==
    [ i \in DOMAIN db |->
        IF i = id
        THEN [ db[i] EXCEPT !.token_version = (@ + 1) % 2 ]
        ELSE db[i] ]

\* UPDATE ... SET token_version = token_version + 1 WHERE id = $1
IncrementTokenVersion(db, id) ==
    [ i \in DOMAIN db |->
        IF i = id THEN [ db[i] EXCEPT !.token_version = @ + 1 ] ELSE db[i] ]

LogoutResult(db, t, token) ==
    LET g == requireUserJWT(db, token, t)
    IN  IF g.status # 0
        THEN [ db |-> db, status |-> g.status, message |-> g.message ]
        ELSE [ db |-> IncrementTokenVersion(db, token.id), status |-> 200,
               message |-> "Logged out successfully" ]

(* POST /admin/login, PATCH /admin/:id/force-logout,                       *)
(* PATCH /admin/users/:id/force-logout                                     *)

isBcryptHash(v) == DOMAIN v = { "bcrypt" }

\* an admin login that also signs the admin's key as the claim id
AdminLoginResult_WithId(admins, t, username, password) ==
    LET email == normEmail(username)
        found == { a \in DOMAIN admins : ToLowerCase(admins[a].email_username) = email }
        a == CHOOSE x \in found : TRUE
        stored == admins[a].password_hash
        ok == IF isBcryptHash(stored)
              THEN bcryptCompare(password, stored)
              ELSE password = stored
    IN  IF email = << >> \/ password = << >>
        THEN [ status |-> 400, message |-> "username/email and password required",
               token |-> NoToken ]
        ELSE IF email \notin ALLOWED_ADMINS
        THEN [ status |-> 403, message |-> "This email is not allowed as admin",
               token |-> NoToken ]
        ELSE IF found = { }
        THEN [ status |-> 401, message |-> "Admin not found in database",
               token |-> NoToken ]
        ELSE IF ~admins[a].is_active
        THEN [ status |-> 403, message |-> "Admin account is disabled",
               token |-> NoToken ]
        ELSE IF ~ok
        THEN [ status |-> 401, message |-> "Invalid password", token |-> NoToken ]
        ELSE [ status |-> 200, message |-> "Login success",
               token |-> jwtSign([ id |-> a, admin_id |-> a,
                                   email |-> normEmail(admins[a].email_username),
                                   role |-> RoleAdmin,
                                   token_version |-> admins[a].token_version ], t) ]

\* an admin login that never looks at is_active
AdminLoginResult_NoActiveTest(admins, t, username, password) ==
    LET email == normEmail(username)
        found == { a \in DOMAIN admins : ToLowerCase(admins[a].email_username) = email }
        a == CHOOSE x \in found : TRUE
        stored == admins[a].password_hash
        ok == IF isBcryptHash(stored)
              THEN bcryptCompare(password, stored)
              ELSE password = stored
    IN  IF email = << >> \/ password = << >>
        THEN [ status |-> 400, message |-> "username/email and password required",
               token |-> NoToken ]
        ELSE IF email \notin ALLOWED_ADMINS
        THEN [ status |-> 403, message |-> "This email is not allowed as admin",
               token |-> NoToken ]
        ELSE IF found = { }
        THEN [ status |-> 401, message |-> "Admin not found in database",
               token |-> NoToken ]
        ELSE IF ~ok
        THEN [ status |-> 401, message |-> "Invalid password", token |-> NoToken ]
        ELSE [ status |-> 200, message |-> "Login success",
               token |-> jwtSign([ id |-> 0, admin_id |-> a,
                                   email |-> normEmail(admins[a].email_username),
                                   role |-> RoleAdmin,
                                   token_version |-> admins[a].token_version ], t) ]

AdminLoginResult(admins, t, username, password) ==
    LET email == normEmail(username)
        found == { a \in DOMAIN admins : ToLowerCase(admins[a].email_username) = email }
        a == CHOOSE x \in found : TRUE
        stored == admins[a].password_hash
        ok == IF isBcryptHash(stored)
              THEN bcryptCompare(password, stored)
              ELSE password = stored
    IN  IF email = << >> \/ password = << >>
        THEN [ status |-> 400, message |-> "username/email and password required",
               token |-> NoToken ]
        ELSE IF email \notin ALLOWED_ADMINS
        THEN [ status |-> 403, message |-> "This email is not allowed as admin",
               token |-> NoToken ]
        ELSE IF found = { }
        THEN [ status |-> 401, message |-> "Admin not found in database",
               token |-> NoToken ]
        ELSE IF ~admins[a].is_active
        THEN [ status |-> 403, message |-> "Admin account is disabled",
               token |-> NoToken ]
        ELSE IF ~ok
        THEN [ status |-> 401, message |-> "Invalid password", token |-> NoToken ]
        ELSE [ status |-> 200, message |-> "Login success",
               token |-> jwtSign([ id |-> 0, admin_id |-> a,
                                   email |-> normEmail(admins[a].email_username),
                                   role |-> RoleAdmin,
                                   token_version |-> admins[a].token_version ], t) ]

AdminForceLogoutResult(admins, t, token, id) ==
    LET g == requireAdmin(token, t)
    IN  IF g.status # 0
        THEN [ db |-> admins, status |-> g.status, message |-> g.message ]
        ELSE [ db |-> IncrementTokenVersion(admins, id), status |-> 200,
               message |-> "Admin session invalidated (force logout done)" ]

\* a force-logout whose UPDATE has no WHERE clause
UserForceLogoutResult_EveryRow(db, t, token, id) ==
    LET g == requireAdmin(token, t)
    IN  IF g.status # 0
        THEN [ db |-> db, status |-> g.status, message |-> g.message ]
        ELSE IF ~MapHas(db, id)
        THEN [ db |-> db, status |-> 404, message |-> "User not found" ]
        ELSE [ db |-> [ i \in DOMAIN db |->
                          [ db[i] EXCEPT !.token_version = @ + 1 ] ],
               status |-> 200, message |-> "User force logout done" ]

UserForceLogoutResult(db, t, token, id) ==
    LET g == requireAdmin(token, t)
    IN  IF g.status # 0
        THEN [ db |-> db, status |-> g.status, message |-> g.message ]
        ELSE IF ~MapHas(db, id)
        THEN [ db |-> db, status |-> 404, message |-> "User not found" ]
        ELSE [ db |-> IncrementTokenVersion(db, id), status |-> 200,
               message |-> "User force logout done" ]

(* PUT /users/:id (routes/auth.js): no middleware; a field the body leaves *)
(* out is the empty sequence                                               *)

\* an update that starts the row's sessions over
UpdateUserRow_ResetVersion(db, id, newEmail, mobile, password) ==
    [ i \in DOMAIN db |->
        IF i = id
        THEN [ db[i] EXCEPT
                 !.email_address = IF newEmail # << >> THEN newEmail ELSE @,
                 !.mobile_number = IF mobile # << >> THEN mobile ELSE @,
                 !.password_hash = IF password # << >> THEN bcryptHash(password) ELSE @,
                 !.token_version = 0 ]
        ELSE db[i] ]

\* UPDATE register_random SET mobile_number=COALESCE($3,mobile_number),
\* email_address=COALESCE($4,email_address),
\* password_hash=COALESCE($10,password_hash) WHERE id=$11
UpdateUserRow(db, id, newEmail, mobile, password) ==
    [ i \in DOMAIN db |->
        IF i = id
        THEN [ db[i] EXCEPT
                 !.email_address = IF newEmail # << >> THEN newEmail ELSE @,
                 !.mobile_number = IF mobile # << >> THEN mobile ELSE @,
                 !.password_hash = IF password # << >> THEN bcryptHash(password) ELSE @ ]
        ELSE db[i] ]

UpdateUserResult(db, id, email, mobile, password) ==
    LET newEmail == IF email # << >> THEN normalizeEmail(email) ELSE << >>
        dup == \E i \in DOMAIN db \ { id } :
                   \/ db[i].email_address = newEmail
                   \/ db[i].mobile_number = mobile
    IN  IF mobile # << >> /\ ~isValidMobile10(mobile)
        THEN [ db |-> db, status |-> 400, message |-> "Mobile number must be 10 digits" ]
        ELSE IF email # << >> /\ ~isValidEmail(email)
        THEN [ db |-> db, status |-> 400, message |-> "Invalid email address" ]
        ELSE IF (newEmail # << >> \/ mobile # << >>) /\ dup
        THEN [ db |-> db, status |-> 409, message |-> "Email or Mobile already exists" ]
        ELSE IF ~MapHas(db, id)
        THEN [ db |-> db, status |-> 404, message |-> "User not found" ]
        ELSE [ db |-> UpdateUserRow(db, id, newEmail, mobile, password),
               status |-> 200, message |-> "Updated successfully" ]

(* DELETE /users/:id (routes/auth.js): no middleware *)

DeleteUserResult(db, id) ==
    IF ~MapHas(db, id)
    THEN [ db |-> db, status |-> 404, message |-> "User not found" ]
    ELSE [ db |-> MapDelete(db, id), status |-> 200,
           message |-> "Deleted successfully" ]

(* PUT /admin/:id: is_active is << >> when the body     *)
(* carries no boolean, << b >> when it carries b                           *)

AdminUpdateRow(admins, id, email_username, is_active, password) ==
    [ a \in DOMAIN admins |->
        IF a = id
        THEN [ admins[a] EXCEPT
                 !.email_username = IF email_username # << >> THEN email_username ELSE @,
                 !.is_active = IF is_active # << >> THEN is_active[1] ELSE @,
                 !.password_hash = IF password # << >> THEN bcryptHash(password) ELSE @ ]
        ELSE admins[a] ]

AdminUpdateResult(admins, t, token, id, email_username_raw, is_active, password) ==
    LET g == requireAdmin(token, t)
        email_username == IF email_username_raw # << >>
                          THEN normEmail(email_username_raw)
                          ELSE << >>
    IN  IF g.status # 0
        THEN [ db |-> admins, status |-> g.status, message |-> g.message ]
        ELSE IF email_username # << >> /\ email_username \notin ALLOWED_ADMINS
        THEN [ db |-> admins, status |-> 403,
               message |-> "Admin email must be one of the allowed 2 emails" ]
        ELSE IF email_username = << >> /\ is_active = << >> /\ password = << >>
        THEN [ db |-> admins, status |-> 400,
               message |-> "No fields provided to update" ]
        ELSE IF ~MapHas(admins, id)
        THEN [ db |-> admins, status |-> 404, message |-> "Admin not found" ]
        ELSE [ db |-> AdminUpdateRow(admins, id, email_username, is_active, password),
               status |-> 200, message |-> "Admin updated" ]

----------------------------------------------------------------------------
(* The session requests, one at a time *)

RECURSIVE SumVersions(_, _)
SumVersions(db, ids) ==
    IF ids = { }
    THEN 0
    ELSE LET i == CHOOSE x \in ids : TRUE
         IN  db[i].token_version + SumVersions(db, ids \ { i })

Bumps == SumVersions(register_random, DOMAIN register_random)
             + SumVersions(admin_random, DOMAIN admin_random)

ledgers ==
    << otpStoreByEmail, verifiedTokenStore, tokensMinted, usersCreated,
       challengesStored, dispatched, issuedAt, wins, wrongCalls, tokenUses, router,
       reqs, documents >>

Sign(r) ==
    IF r.status = 200
    THEN /\ r.token \notin issued => Cardinality(issued) < MaxSessions
         /\ issued' = issued \cup { r.token }
    ELSE UNCHANGED issued

Login(username, password) ==
    /\ Sign(LoginResult(register_random, now, username, password))
    /\ UNCHANGED << now, register_random, admin_random, ledgers >>

Logout(token) ==
    LET r == LogoutResult(register_random, now, token)
    IN  /\ r.status = 200 => Bumps < MaxBumps
        /\ register_random' = r.db
        /\ UNCHANGED << now, admin_random, issued, ledgers >>

AdminLogin(username, password) ==
    /\ Sign(AdminLoginResult(admin_random, now, username, password))
    /\ UNCHANGED << now, register_random, admin_random, ledgers >>

AdminForceLogout(token, id) ==
    LET r == AdminForceLogoutResult(admin_random, now, token, id)
    IN  /\ r.status = 200 => Bumps < MaxBumps
        /\ admin_random' = r.db
        /\ UNCHANGED << now, register_random, issued, ledgers >>

UserForceLogout(token, id) ==
    LET r == UserForceLogoutResult(register_random, now, token, id)
    IN  /\ r.status = 200 => Bumps < MaxBumps
        /\ register_random' = r.db
        /\ UNCHANGED << now, admin_random, issued, ledgers >>

UpdateUser(id, email, mobile, password) ==
    /\ register_random' = UpdateUserResult(register_random, id, email, mobile,
                                          password).db
    /\ UNCHANGED << now, admin_random, issued, ledgers >>

AdminUpdate(token, id, email_username, is_active, password) ==
    /\ admin_random' = AdminUpdateResult(admin_random, now, token, id,
                                        email_username, is_active, password).db
    /\ UNCHANGED << now, register_random, issued, ledgers >>

DeleteUser(id) ==
    /\ register_random' = DeleteUserResult(register_random, id).db
    /\ UNCHANGED << now, admin_random, issued, ledgers >>

\* the force-logout requests name the first row of the table or a missing row
ForceLogoutIds == { 1, 3 }

NextSession ==
    \/ TickTo(SessionInstants)
    \/ \E username \in RawUsernames, password \in RawLoginPasswords :
          Login(username, password)
    \/ \E token \in Bearers : Logout(token)
    \/ \E username \in RawAdminNames, password \in RawLoginPasswords :
          AdminLogin(username, password)
    \/ \E token \in Bearers, id \in ForceLogoutIds : AdminForceLogout(token, id)
    \/ \E token \in Bearers, id \in ForceLogoutIds : UserForceLogout(token, id)

SpecSession == Init /\ [][NextSession]_vars

----------------------------------------------------------------------------
(* The account requests of one router and of the admin router, one at a    *)
(* time and at one instant: OTP and token ledgers, users, admins, sessions *)

\* fields an update request can carry (the empty sequence: field left out)
UserUpdates == { [ email |-> << >>, mobile |-> Mobile1, password |-> Pw2 ] }
AdminUpdates ==
    { [ email_username |-> Admin1Email, is_active |-> << TRUE >>, password |-> Pw2 ] }
AccountEmails == { EmailA, EmailB }

\* the requests are those about the first user, the first admin and the
\* email being registered
AccountUsernames == { << " ", "B", "@", "x", ".", "y" >>, EmailA }
AccountIds == { 1 }

NextAccounts ==
    \/ \E raw \in AccountEmails : SendOtp(router, raw, SentCode, TRUE)
    \/ \E raw \in AccountEmails : VerifyOtp(router, raw, SentCode)
    \/ /\ router = "auth"
       /\ \E raw \in AccountEmails, tok \in RawTokens :
             Register(1, raw, Mobile1, Pw2, tok)
    \/ /\ router = "forgot"
       /\ \E raw \in AccountEmails, tok \in RawTokens :
             ResetPassword(raw, Pw2, tok)
    \/ \E username \in AccountUsernames, password \in RawLoginPasswords :
          Login(username, password)
    \/ \E token \in Bearers : Logout(token)
    \/ AdminLogin(Admin1Email, Pw1)
    \/ \E token \in Bearers, id \in AccountIds : AdminForceLogout(token, id)
    \/ \E token \in Bearers, id \in AccountIds : UserForceLogout(token, id)
    \/ \E id \in AccountIds, body \in UserUpdates :
          UpdateUser(id, body.email, body.mobile, body.password)
    \/ \E token \in Bearers, id \in AccountIds, body \in AdminUpdates :
          AdminUpdate(token, id, body.email_username, body.is_active, body.password)

SpecAccounts == Init /\ [][NextAccounts]_vars

----------------------------------------------------------------------------
(* The registration router and the forgot-password router side by side, as *)
(* index.js mounts them, one request at a time                             *)

FlowInstants == { Now0 + o : o \in { 0, OTP_RESEND_COOLDOWN_MS } }

NextFlows ==
    \/ TickTo(FlowInstants)
    \/ \E f \in Flows, raw \in AccountEmails : SendOtp(f, raw, SentCode, TRUE)
    \/ \E f \in Flows, raw \in AccountEmails, otp \in OtpCodes :
          VerifyOtp(f, raw, otp)
    \/ \E ver \in RegisterVersions, raw \in AccountEmails, tok \in RawTokens :
          Register(ver, raw, Mobile1, Pw1, tok)
    \/ \E raw \in AccountEmails, tok \in RawTokens : ResetPassword(raw, Pw2, tok)

\* both routers take requests, so the variable that names the one router of
\* the other specifications is not read here and keeps one value
InitFlows == Init /\ router = "auth"

SpecFlows == InitFlows /\ [][NextFlows]_vars

----------------------------------------------------------------------------
(* The same two routers with the requests that are turned down after the   *)
(* token test: the email or the mobile is taken, the email is no longer    *)
(* registered (PUT /users/:id moved the account to another email), or the  *)
(* database throws                                                         *)

ConsumeInstants == { Now0 + o : o \in { 0, VERIFY_TOKEN_TTL_MS + 1 } }
ConsumeMobiles == { Mobile1, Mobile2 }

NextConsume ==
    \/ TickTo(ConsumeInstants)
    \/ \E f \in Flows, raw \in AccountEmails : SendOtp(f, raw, SentCode, TRUE)
    \/ \E f \in Flows, raw \in AccountEmails : VerifyOtp(f, raw, SentCode)
    \/ \E ver \in RegisterVersions, tok \in RawTokens :
          Register(ver, EmailA, Mobile1, Pw1, tok)
    \/ \E tok \in RawTokens : Register(2, EmailA, Mobile2, Pw1, tok)
    \/ \E raw \in AccountEmails, tok \in RawTokens : ResetPassword(raw, Pw2, tok)
    \/ \E ver \in RegisterVersions, tok \in RawTokens :
          RegisterThrows(ver, EmailA, Mobile1, Pw1, tok)
    \/ \E tok \in RawTokens : ResetPasswordThrows(EmailB, Pw2, tok)
    \/ \E id \in AccountIds, email \in AccountEmails : UpdateUser(id, email, << >>, << >>)

SpecConsume == InitFlows /\ [][NextConsume]_vars

----------------------------------------------------------------------------
(* The admin router alone: administrators log in, disable and enable each  *)
(* other, change passwords and force logouts                               *)

AdminBodies ==
    { [ email_username |-> << >>, is_active |-> << FALSE >>, password |-> << >> ],
      [ email_username |-> << >>, is_active |-> << TRUE >>, password |-> << >> ],
      [ email_username |-> << >>, is_active |-> << >>, password |-> Pw2 ] }
AdminIds == { 1, 2 }
AdminInstants == { Now0 + o : o \in { 0, TOKEN_EXP_S * 1000 } }

NextAdmins ==
    \/ TickTo(AdminInstants)
    \/ \E username \in RawAdminNames, password \in RawLoginPasswords :
          AdminLogin(username, password)
    \/ \E token \in Bearers, id \in AdminIds, body \in AdminBodies :
          AdminUpdate(token, id, body.email_username, body.is_active, body.password)
    \/ \E token \in Bearers, id \in AdminIds : AdminForceLogout(token, id)

SpecAdmins == Init /\ [][NextAdmins]_vars

----------------------------------------------------------------------------
(* Logouts and force-logouts of two users and the administrators, named by *)
(* ids that have a row and by one that has none                            *)

LogoutUsernames == { << " ", "B", "@", "x", ".", "y" >>, Mobile3 }

NextLogouts ==
    \/ \E username \in LogoutUsernames, password \in RawLoginPasswords :
          Login(username, password)
    \/ \E token \in Bearers : Logout(token)
    \/ AdminLogin(Admin1Email, Pw1)
    \/ \E token \in Bearers, id \in RawIds : AdminForceLogout(token, id)
    \/ \E token \in Bearers, id \in RawIds : UserForceLogout(token, id)

SpecLogouts == InitFlows /\ [][NextLogouts]_vars

----------------------------------------------------------------------------
(* Accounts that are deleted and registered again: the registration router *)
(* with DELETE /users/:id, the logins and the logouts                      *)

DeleteUsernames == { EmailB, Mobile3 }

NextDeletes ==
    \/ SendOtp("auth", EmailB, SentCode, TRUE)
    \/ VerifyOtp("auth", EmailB, SentCode)
    \/ \E ver \in RegisterVersions, tok \in RawTokens :
          Register(ver, EmailB, Mobile1, Pw1, tok)
    \/ \E username \in DeleteUsernames, password \in RawLoginPasswords :
          Login(username, password)
    \/ \E token \in Bearers : Logout(token)
    \/ \E id \in RawIds : DeleteUser(id)

SpecDeletes == InitFlows /\ [][NextDeletes]_vars

----------------------------------------------------------------------------
(* What a request would be answered in the current state *)

VerifyOtpNow(f, raw, otp) ==
    VerifyOtpResult(f, otpStoreByEmail[f], verifiedTokenStore[f], now, raw, otp,
                    tokensMinted + 1)

VerifyOtpThen(f, raw, otp) ==
    VerifyOtpResult(f, otpStoreByEmail'[f], verifiedTokenStore'[f], now', raw, otp,
                    tokensMinted' + 1)

SendOtpNow(f, raw, otp, delivered) ==
    SendOtpResult(f, register_random, otpStoreByEmail[f], now, raw, otp, delivered)

(* The error kinds of the specification, as the responses that carry them *)

IsOtpNotFound(f, r) == r.status = 400 /\ r.message = OtpNotFoundMessage(f)
IsOtpExpired(f, r) == r.status = 400 /\ r.message = OtpExpiredMessage(f)
IsTooManyAttempts(f, r) == r.status = 429 /\ r.message = OtpTooManyMessage(f)
IsInvalidCode(r) == r.status = 400 /\ r.message = "Invalid OTP"
IsVerified(f, r) == r.status = 200 /\ r.message = OtpVerifiedMessage(f)
IsRateLimited(r) ==
    r.status = 429 /\ r.message = "Please wait before resending OTP"

Live(f, e) == MapHas(otpStoreByEmail[f], e)
LiveThen(f, e) == MapHas(otpStoreByEmail'[f], e)
\* the code the client was sent, and a well-formed code that is not it
CorrectCode(f, e, otp) == otp = dispatched[f][e]
WrongCode(f, e, otp) == isSixDigits(otp) /\ otp # dispatched[f][e]

----------------------------------------------------------------------------
\* C6: a verify-otp carrying the code that was sent, made while
\* now <= expiresAt and attempts < MAX_OTP_ATTEMPTS, succeeds, deletes the
\* challenge and mints a fresh verification token bound to the email for 15
\* minutes; the same request made again right after is answered "OTP not found".
C6_CorrectCodeVerifiesOnce ==
    [][ \A raw \in RawEmails, otp \in RawOtps :
          LET e == Normalized[raw]
              store == otpStoreByEmail[router]
              t == tokensMinted + 1
          IN  ( /\ Live(router, e)
                /\ now <= store[e].expiresAt
                /\ store[e].attempts < MAX_OTP_ATTEMPTS
                /\ CorrectCode(router, e, otp)
                /\ VerifyOtp(router, raw, otp) )
              => /\ IsVerified(router, VerifyOtpNow(router, raw, otp))
                 /\ ~LiveThen(router, e)
                 /\ ~MapHas(verifiedTokenStore[router], t)
                 /\ verifiedTokenStore'[router] =
                       MapSet(verifiedTokenStore[router], t,
                              [ email |-> e, expiresAt |-> now + 15 * 60 * 1000 ])
                 /\ IsOtpNotFound(router, VerifyOtpThen(router, raw, otp))
      ]_vars

\* C6 witness: a challenge was verified at the very instant it expires
C6_Witness ==
    \E e \in NormEmails :
        /\ wins[router][e] = 1
        /\ ~Live(router, e)
        /\ now = issuedAt[router][e] + OTP_TTL_MS
        /\ \E t \in DOMAIN verifiedTokenStore[router] :
              verifiedTokenStore[router][t] =
                  [ email |-> e, expiresAt |-> now + VERIFY_TOKEN_TTL_MS ]

\* C7 as claimed: after a challenge is issued, the first four wrong-code
\* verify-otp calls answer "Invalid OTP" and leave attempts = 4, and the fifth
\* answers "Too many attempts" and deletes the challenge.
C7_FifthWrongCallIsTooMany ==
    [][ \A raw \in RawEmails, otp \in RawOtps :
          LET e == Normalized[raw]
              k == wrongCalls[router][e]
          IN  ( /\ issuedAt[router][e] # 0
                /\ now <= issuedAt[router][e] + OTP_TTL_MS
                /\ WrongCode(router, e, otp)
                /\ VerifyOtp(router, raw, otp) )
              => /\ k \in 0 .. 3 =>
                       /\ IsInvalidCode(VerifyOtpNow(router, raw, otp))
                       /\ LiveThen(router, e)
                       /\ otpStoreByEmail'[router][e].attempts = k + 1
                 /\ k = 4 =>
                       /\ IsTooManyAttempts(router, VerifyOtpNow(router, raw, otp))
                       /\ ~LiveThen(router, e)
      ]_vars

\* C7 as amended: the first five wrong-code calls answer "Invalid OTP" and
\* leave attempts = 5; the sixth answers "Too many attempts" and deletes the
\* challenge; after it every verify-otp for the email answers "OTP not found".
C7_SixthWrongCallIsTooMany ==
    [][ \A raw \in RawEmails, otp \in RawOtps :
          LET e == Normalized[raw]
              k == wrongCalls[router][e]
          IN  ( /\ issuedAt[router][e] # 0
                /\ now <= issuedAt[router][e] + OTP_TTL_MS
                /\ WrongCode(router, e, otp)
                /\ VerifyOtp(router, raw, otp) )
              => /\ k \in 0 .. 4 =>
                       /\ IsInvalidCode(VerifyOtpNow(router, raw, otp))
                       /\ LiveThen(router, e)
                       /\ otpStoreByEmail'[router][e].attempts = k + 1
                 /\ k = 5 =>
                       /\ IsTooManyAttempts(router, VerifyOtpNow(router, raw, otp))
                       /\ ~LiveThen(router, e)
                       /\ \A any \in RawOtps :
                             isSixDigits(any) =>
                                 IsOtpNotFound(router, VerifyOtpThen(router, raw, any))
      ]_vars

\* C7 witness: six wrong-code calls were made within the TTL and the
\* challenge is gone
C7_Witness ==
    \E e \in NormEmails :
        /\ wrongCalls[router][e] = 6
        /\ ~Live(router, e)
        /\ now <= issuedAt[router][e] + OTP_TTL_MS

\* C8: on an unexpired challenge whose attempts reached MAX_OTP_ATTEMPTS, a
\* well-formed verify-otp answers "Too many attempts" and deletes the
\* challenge whatever the code, the correct one included; no token is minted.
C8_ExhaustedChallengeRejectsAnyCode ==
    [][ \A raw \in RawEmails, otp \in RawOtps :
          LET e == Normalized[raw]
              store == otpStoreByEmail[router]
          IN  ( /\ isSixDigits(otp)
                /\ Live(router, e)
                /\ now <= store[e].expiresAt
                /\ store[e].attempts >= MAX_OTP_ATTEMPTS
                /\ VerifyOtp(router, raw, otp) )
              => /\ IsTooManyAttempts(router, VerifyOtpNow(router, raw, otp))
                 /\ ~LiveThen(router, e)
                 /\ verifiedTokenStore' = verifiedTokenStore
                 /\ tokensMinted' = tokensMinted
      ]_vars

\* C8 witness: the code that was sent was presented within the TTL, after five
\* wrong ones, and won nothing
C8_Witness ==
    \E e \in NormEmails :
        /\ issuedAt[router][e] # 0
        /\ now <= issuedAt[router][e] + OTP_TTL_MS
        /\ wrongCalls[router][e] = -1
        /\ wins[router][e] = 0
        /\ ~Live(router, e)
        /\ tokensMinted = 0

\* C10 as claimed: a send-otp made less than OTP_RESEND_COOLDOWN_MS after a
\* challenge was stored for the same email answers "Please wait before
\* resending OTP" and stores nothing, whatever happened in between.
C10_ResendWithinCooldownIsRateLimited ==
    \A raw \in RawEmails, otp \in OtpCodes, d \in BOOLEAN :
        LET e == Normalized[raw]
        IN  ( /\ FieldOk[e]
              /\ issuedAt[router][e] # 0
              /\ now - issuedAt[router][e] < OTP_RESEND_COOLDOWN_MS )
            => /\ IsRateLimited(SendOtpNow(router, raw, otp, d))
               /\ ~SendOtpNow(router, raw, otp, d).stored

----------------------------------------------------------------------------
\* C3 as claimed: however reset-password requests presenting one verify_token
\* interleave, at most one of them completes its password update.
C3_TokenConsumedAtMostOnce ==
    \A tok \in 1 .. MaxTokens : tokenUses[tok] <= 1

\* C4 as claimed: however verify-otp requests for one email interleave, at
\* most one of them succeeds (and mints a token) per stored challenge.
C4_AtMostOneWinPerChallenge ==
    \A f \in Flows, e \in NormEmails : wins[f][e] <= 1

\* C5: with requests handled one at a time, a verification token completes
\* at most one register / reset-password, and from then on every well-formed
\* request presenting it is answered 401 with the handler's unknown-token
\* message, whatever email, mobile and password it carries.
C5_TokenAcceptedAtMostOnce ==
    \A tok \in 1 .. MaxTokens :
        /\ tokenUses[tok] <= 1
        /\ tokenUses[tok] = 1 =>
              /\ \A ver \in RegisterVersions, raw \in RawEmails,
                    mobile \in RawMobiles, password \in RawPasswords :
                    LET r == RegisterResult(ver, verifiedTokenStore["auth"],
                                            register_random, now, raw, mobile,
                                            password, tok, usersCreated + 3)
                    IN  RegisterValidate(ver, Normalized[raw], mobile, password,
                                         tok).status = 0
                        => /\ r.status = 401
                           /\ r.message = IF ver = 1
                                          THEN "Invalid verify_token"
                                          ELSE "Invalid verify_token. Verify email again."
                           /\ r.db = register_random
              /\ \A raw \in RawEmails, password \in RawPasswords :
                    LET r == ResetPasswordResult(verifiedTokenStore["forgot"],
                                                 register_random, now, raw,
                                                 password, tok)
                    IN  ResetValidate(Normalized[raw], password, tok).status = 0
                        => /\ r.status = 401
                           /\ r.message = "Invalid verify_token. Verify OTP again."
                           /\ r.db = register_random

\* C5 witness: a token completed an operation and left the ledger while
\* another token is still there
C5_Witness ==
    \E tok, other \in 1 .. MaxTokens :
        /\ tokenUses[tok] = 1
        /\ ~MapHas(verifiedTokenStore[router], tok)
        /\ MapHas(verifiedTokenStore[router], other)

\* C9: in every state, requests in flight included, the keys of each OTP
\* ledger are trimmed and lower-cased (so one email has one challenge) and
\* 0 <= attempts <= MAX_OTP_ATTEMPTS; attempts of a stored challenge goes down
\* only to 0, and only by the step that stores a new challenge in its place.
C9_LedgerInvariant ==
    /\ [](\A f \in Flows : \A k \in DOMAIN otpStoreByEmail[f] :
             /\ k = ToLowerCase(Trim(k))
             /\ otpStoreByEmail[f][k].attempts \in 0 .. MAX_OTP_ATTEMPTS)
    /\ [][ \A f \in Flows, e \in NormEmails :
             ( /\ Live(f, e)
               /\ LiveThen(f, e)
               /\ otpStoreByEmail'[f][e].attempts < otpStoreByEmail[f][e].attempts )
             => /\ otpStoreByEmail'[f][e].attempts = 0
                /\ challengesStored' = challengesStored + 1
                /\ issuedAt'[f][e] = now
                /\ \E r \in Pending("send-otp") : reqs' = reqs (-) SetToBag({ r })
       ]_vars

\* C9 witness: a challenge replaced another one, was brought to the maximum
\* by requests spelling the email differently, two of them still in flight
C9_Witness ==
    \E e \in NormEmails :
        /\ challengesStored = 2
        /\ Live(router, e)
        /\ otpStoreByEmail[router][e].attempts = MAX_OTP_ATTEMPTS
        /\ InFlight("verify-otp") = 2

----------------------------------------------------------------------------
UserTokens == { k \in issued : k.role = RoleUser }
AdminTokens == { k \in issued : k.role = RoleAdmin }
SessionExpired == [ status |-> 401, message |-> "Session expired. Please login again." ]

\* C1: a token signed by the user login with token_version V, while it
\* verifies (signature, exp), passes requireUserJWT in every state where the
\* user's row holds version V; a step that changes a user's token_version
\* (POST /logout, PATCH /admin/users/:id/force-logout) raises it by exactly 1,
\* changes nothing else in the tables and the ledgers, and in the state it
\* leaves requireUserJWT answers "Session expired. Please login again." to
\* every token of that user stamped with the version before.
C1_VersionStampDecides ==
    /\ [](\A k \in UserTokens :
             ( /\ jwtVerify(k, now)
               /\ MapHas(register_random, k.id)
               /\ register_random[k.id].token_version = k.token_version )
             => requireUserJWT(register_random, k, now) = Passed)
    /\ [][ \A u \in DOMAIN register_random :
             ( /\ MapHas(register_random', u)
               /\ register_random'[u].token_version # register_random[u].token_version )
             => /\ register_random' =
                      [ register_random EXCEPT ![u].token_version = @ + 1 ]
                /\ UNCHANGED << now, admin_random, issued, ledgers >>
                /\ \A k \in UserTokens :
                      ( /\ k.id = u
                        /\ k.token_version = register_random[u].token_version
                        /\ jwtVerify(k, now') )
                      => requireUserJWT(register_random', k, now') = SessionExpired
       ]_vars

\* C1 witness: one user holds a token that was revoked and a token signed
\* after it that passes
C1_Witness ==
    \E k1, k2 \in UserTokens :
        /\ k1.id = k2.id
        /\ jwtVerify(k1, now)
        /\ register_random[k1.id].token_version = k1.token_version + 1
        /\ requireUserJWT(register_random, k1, now) = SessionExpired
        /\ requireUserJWT(register_random, k2, now) = Passed

\* C2 as claimed: requireAdmin rejects every verifying admin token whose
\* token_version differs from the version stored in the admin's row.
C2_StaleAdminTokenRejected ==
    \A k \in AdminTokens :
        ( /\ jwtVerify(k, now)
          /\ MapHas(admin_random, k.admin_id)
          /\ admin_random[k.admin_id].token_version # k.token_version )
        => requireAdmin(k, now).status # 0

----------------------------------------------------------------------------
\* C11 as claimed: of send-otp requests for one email in flight together at
\* most one passes the cooldown test and stores a challenge, so a challenge
\* is never stored over one that was stored less than OTP_RESEND_COOLDOWN_MS
\* before.
C11_OneSendPerCooldownWindow ==
    [][ \A r \in Pending("send-otp") :
          ( /\ SendOtpFinish(router, r)
            /\ Live(router, r.email) )
          => now - otpStoreByEmail[router][r.email].lastSentAt
                 >= OTP_RESEND_COOLDOWN_MS
      ]_vars

\* C14 as claimed: under every interleaving, a verify-otp that succeeds while
\* the ledger holds a challenge for its email supplied the code whose hash
\* that challenge holds, so the challenge it deletes is the one it was
\* compared against.
C14_SuccessDeletesTheComparedChallenge ==
    [][ \A r \in Pending("verify-otp") :
          ( /\ VerifyOtpFinish(router, r)
            /\ r.ok
            /\ Live(router, r.email) )
          => bcryptCompare(r.otp, otpStoreByEmail[router][r.email].otpHash)
      ]_vars

\* C12 as claimed: a send-otp whose dispatch failed leaves no challenge that
\* holds the undelivered code's hash with a fresh lastSentAt, and the same
\* request made again at once is not answered RateLimited.
C12_FailedDispatchLeavesNoChallenge ==
    [][ \A raw \in RawEmails, otp \in OtpCodes :
          ( /\ SendOtp(router, raw, otp, FALSE)
            /\ SendOtpNow(router, raw, otp, FALSE).stored )
          => /\ SendOtpNow(router, raw, otp, FALSE).status = 500
             /\ ~ ( /\ LiveThen(router, Normalized[raw])
                    /\ otpStoreByEmail'[router][Normalized[raw]].otpHash
                           = bcryptHash(otp)
                    /\ otpStoreByEmail'[router][Normalized[raw]].lastSentAt = now' )
             /\ ~IsRateLimited(SendOtpResult(router, register_random',
                                             otpStoreByEmail'[router], now',
                                             raw, otp, TRUE))
      ]_vars

\* C13: a send-otp request answers "OTP sent successfully" only when its
\* dispatch was delivered, and it invokes sendOTP at most once (exactly once
\* when it answers success or "Server error", never when it is rejected).
C13_SuccessOnlyAfterDelivery ==
    \A raw \in RawEmails, otp \in OtpCodes, delivered \in BOOLEAN :
        LET r == SendOtpNow(router, raw, otp, delivered)
        IN  /\ r.sendOTPCalls <= 1
            /\ r.message = "OTP sent successfully"
                  => r.status = 200 /\ delivered /\ r.sendOTPCalls = 1
            /\ r.status = 200 => r.message = "OTP sent successfully"
            /\ ~r.stored => r.sendOTPCalls = 0

\* a challenge is on the ledger, its cooldown is over, and the next send-otp
\* for its email succeeds if delivered and answers 500 if not
C13_Witness ==
    \E raw \in RawEmails, otp \in OtpCodes :
        /\ Live(router, Normalized[raw])
        /\ challengesStored = 1
        /\ SendOtpNow(router, raw, otp, TRUE).status = 200
        /\ SendOtpNow(router, raw, otp, FALSE).status = 500

\* C15: a send-otp that gets past the cooldown test replaces the challenge of
\* its email by one with the new code's hash, attempts = 0,
\* expiresAt = now + OTP_TTL_MS and lastSentAt = now, whatever attempts the
\* replaced challenge had counted; the challenges of other emails stay as
\* they were.
C15_SendReplacesTheChallenge ==
    [][ \A raw \in MoreEmails :
          ( /\ SendOtp(router, raw, SentCode, TRUE)
            /\ SendOtpNow(router, raw, SentCode, TRUE).stored )
          => /\ LiveThen(router, Normalized[raw])
             /\ otpStoreByEmail'[router][Normalized[raw]]
                   = [ otpHash |-> bcryptHash(SentCode),
                       expiresAt |-> now + OTP_TTL_MS,
                       attempts |-> 0,
                       lastSentAt |-> now ]
             /\ \A other \in NormEmails \ { Normalized[raw] } :
                   /\ LiveThen(router, other) <=> Live(router, other)
                   /\ Live(router, other)
                         => otpStoreByEmail'[router][other]
                              = otpStoreByEmail[router][other]
      ]_vars

\* two emails hold a challenge, one of them with wrong attempts counted and
\* its cooldown over: the next send-otp for it replaces it
C15_Witness ==
    \E raw \in MoreEmails, other \in NormEmails :
        /\ other # Normalized[raw]
        /\ Live(router, other)
        /\ Live(router, Normalized[raw])
        /\ otpStoreByEmail[router][Normalized[raw]].attempts > 1
        /\ SendOtpNow(router, raw, SentCode, TRUE).stored
        /\ challengesStored = 2

\* C16: a well-formed verify-otp for a challenge with now > expiresAt answers
\* Expired and deletes the challenge, whatever its attempts and whatever the
\* code, and mints no token; at now = expiresAt the challenge is not expired.
C16_ExpiredChallengeIsDeleted ==
    \A raw \in RawEmails, otp \in OtpCodes :
        LET e == Normalized[raw]
            r == VerifyOtpNow(router, raw, otp)
        IN  Live(router, e)
            => /\ now > otpStoreByEmail[router][e].expiresAt
                    => /\ IsOtpExpired(router, r)
                       /\ ~MapHas(r.store, e)
                       /\ r.tokens = verifiedTokenStore[router]
               /\ now = otpStoreByEmail[router][e].expiresAt
                    => ~IsOtpExpired(router, r)
               /\ IsVerified(router, r)
                    => now <= otpStoreByEmail[router][e].expiresAt

\* a challenge past its expiry with all its attempts used, and the code that
\* was sent for it answered Expired
C16_Witness ==
    \E raw \in RawEmails :
        /\ Live(router, Normalized[raw])
        /\ now > otpStoreByEmail[router][Normalized[raw]].expiresAt
        /\ otpStoreByEmail[router][Normalized[raw]].attempts = MAX_OTP_ATTEMPTS
        /\ IsOtpExpired(router,
                        VerifyOtpNow(router, raw, dispatched[router][Normalized[raw]]))

\* C17: a verify-otp with a code that does not match, for a challenge that is
\* not expired and has attempts < MAX_OTP_ATTEMPTS, answers InvalidCode, adds
\* exactly one to attempts, leaves otpHash, expiresAt and lastSentAt as they
\* were, mints no token and changes no other email's challenge.
C17_WrongCodeOnlyCountsAnAttempt ==
    [][ \A raw \in MoreEmails, otp \in OtpCodes :
          ( /\ VerifyOtp(router, raw, otp)
            /\ Live(router, Normalized[raw])
            /\ ~OtpExpired(otpStoreByEmail[router][Normalized[raw]], now)
            /\ otpStoreByEmail[router][Normalized[raw]].attempts < MAX_OTP_ATTEMPTS
            /\ ~bcryptCompare(otp, otpStoreByEmail[router][Normalized[raw]].otpHash) )
          => /\ IsInvalidCode(VerifyOtpNow(router, raw, otp))
             /\ LiveThen(router, Normalized[raw])
             /\ otpStoreByEmail'[router][Normalized[raw]]
                   = [ otpStoreByEmail[router][Normalized[raw]]
                         EXCEPT !.attempts = @ + 1 ]
             /\ verifiedTokenStore' = verifiedTokenStore
             /\ tokensMinted' = tokensMinted
             /\ \A other \in NormEmails \ { Normalized[raw] } :
                   /\ LiveThen(router, other) <=> Live(router, other)
                   /\ Live(router, other)
                         => otpStoreByEmail'[router][other]
                              = otpStoreByEmail[router][other]
      ]_vars

\* three wrong codes have been counted against one email's challenge while
\* another email's challenge is on the ledger, untouched
C17_Witness ==
    \E e \in NormEmails, other \in NormEmails :
        /\ other # e
        /\ Live(router, e)
        /\ otpStoreByEmail[router][e].attempts = 3
        /\ wrongCalls[router][e] = 3
        /\ Live(router, other)
        /\ otpStoreByEmail[router][other].attempts = 0
        /\ tokensMinted = 0

\* C18: the token store gains an entry only in a step that is a successful
\* verify-otp, and the entry is bound to that request's normalized email with
\* expiresAt = now + VERIFY_TOKEN_TTL_MS; no step changes an entry that is
\* already there, and send-otp, a failed verify-otp, register and
\* reset-password add none.
C18_TokensComeFromVerifyOtp ==
    [][ \A f \in Flows :
          /\ \A tok \in DOMAIN verifiedTokenStore[f] :
                MapHas(verifiedTokenStore'[f], tok)
                  => verifiedTokenStore'[f][tok] = verifiedTokenStore[f][tok]
          /\ \A tok \in DOMAIN verifiedTokenStore'[f] \ DOMAIN verifiedTokenStore[f] :
                /\ f = router
                /\ \E raw \in MoreEmails :
                      /\ VerifyOtp(router, raw, SentCode)
                      /\ IsVerified(router, VerifyOtpNow(router, raw, SentCode))
                      /\ Live(router, Normalized[raw])
                      /\ verifiedTokenStore'[f][tok]
                            = [ email |-> Normalized[raw],
                                expiresAt |-> now + VERIFY_TOKEN_TTL_MS ]
                /\ DOMAIN verifiedTokenStore'[f]
                      = DOMAIN verifiedTokenStore[f] \cup { tok }
      ]_vars

\* two tokens are in the store, minted at different instants for two emails
C18_Witness ==
    \E t1, t2 \in DOMAIN verifiedTokenStore[router] :
        /\ verifiedTokenStore[router][t1].email # verifiedTokenStore[router][t2].email
        /\ verifiedTokenStore[router][t1].expiresAt = Now0 + VERIFY_TOKEN_TTL_MS
        /\ verifiedTokenStore[router][t2].expiresAt = Now0 + 1 + VERIFY_TOKEN_TTL_MS
        /\ tokensMinted = 2

\* C19: a register or reset-password request that presents an unexpired token
\* bound to another email than its own normalized email is rejected (401 once
\* its fields are well formed, 400 before that) and leaves every user row,
\* that of the token's email and that of the request's email included, as it
\* was.
C19_TokenOfAnotherEmailIsRejected ==
    \A tok \in DOMAIN verifiedTokenStore[router], raw \in MoreEmails,
       password \in RawPasswords :
        ( /\ now <= verifiedTokenStore[router][tok].expiresAt
          /\ verifiedTokenStore[router][tok].email # Normalized[raw] )
        => IF router = "auth"
           THEN \A ver \in RegisterVersions, mobile \in RawMobiles :
                   LET r == RegisterResult(ver, verifiedTokenStore["auth"],
                                           register_random, now, raw, mobile,
                                           password, tok, usersCreated + 3)
                   IN  /\ r.status \in { 400, 401 }
                       /\ RegisterValidate(ver, Normalized[raw], mobile, password,
                                            tok).status = 0
                             => /\ r.status = 401
                                /\ r.message = IF ver = 1
                                               THEN "Invalid verify_token"
                                               ELSE "verify_token does not match email"
                       /\ r.db = register_random
           ELSE LET r == ResetPasswordResult(verifiedTokenStore["forgot"],
                                             register_random, now, raw, password,
                                             tok)
                IN  /\ r.status \in { 400, 401 }
                    /\ ResetValidate(Normalized[raw], password, tok).status = 0
                          => /\ r.status = 401
                             /\ r.message = "verify_token does not match email"
                    /\ r.db = register_random

\* an unexpired token bound to one registered email, and a well-formed
\* reset-password for another registered email that presents it
C19_Witness ==
    \E tok \in DOMAIN verifiedTokenStore["forgot"], raw \in MoreEmails,
       password \in RawPasswords :
        /\ router = "forgot"
        /\ now <= verifiedTokenStore["forgot"][tok].expiresAt
        /\ verifiedTokenStore["forgot"][tok].email # Normalized[raw]
        /\ EmailRegistered(register_random, verifiedTokenStore["forgot"][tok].email)
        /\ EmailRegistered(register_random, Normalized[raw])
        /\ ResetValidate(Normalized[raw], password, tok).status = 0
        /\ ResetPasswordResult(verifiedTokenStore["forgot"], register_random, now,
                               raw, password, tok).message
              = "verify_token does not match email"

\* C20 as claimed: a well-formed register or reset-password that presents a
\* token with now > expiresAt is answered 401, by the routers that have one
\* with their expired-token message, and leaves the token store without that
\* token.
C20_ExpiredTokenIsRejectedAndDeleted ==
    \A tok \in DOMAIN verifiedTokenStore[router], raw \in MoreEmails,
       password \in RawPasswords :
        now > verifiedTokenStore[router][tok].expiresAt
        => IF router = "auth"
           THEN \A ver \in RegisterVersions, mobile \in RawMobiles :
                   LET r == RegisterResult(ver, verifiedTokenStore["auth"],
                                           register_random, now, raw, mobile,
                                           password, tok, usersCreated + 3)
                   IN  RegisterValidate(ver, Normalized[raw], mobile, password,
                                        tok).status = 0
                       => /\ r.status = 401
                          /\ ver = 2 => r.message
                                          = "verify_token expired. Verify email again."
                          /\ ~MapHas(r.tokens, tok)
                          /\ r.db = register_random
           ELSE LET r == ResetPasswordResult(verifiedTokenStore["forgot"],
                                             register_random, now, raw, password,
                                             tok)
                IN  ResetValidate(Normalized[raw], password, tok).status = 0
                    => /\ r.status = 401
                       /\ r.message = "verify_token expired. Verify OTP again."
                       /\ ~MapHas(r.tokens, tok)
                       /\ r.db = register_random

\* the claims a bearer token can carry when it reaches requireAdmin: any role
\* and any email, under the server's signature or not, with the expiry a
\* token signed at Now0 gets
GuardRoles == { RoleAdmin, << "A", "d", "m", "i", "n" >>, RoleUser, << >> }
GuardEmails ==
    { Admin1Email, << " ", "A" >> \o Tail(Admin2Email), EmailA, EmailB, << >>,
      << " " >> }
GuardTokens ==
    { [ id |-> 0, admin_id |-> 1, email |-> e, role |-> r, token_version |-> 0,
        exp |-> (Now0 \div 1000) + TOKEN_EXP_S, signed |-> g ] :
      e \in GuardEmails, r \in GuardRoles, g \in BOOLEAN }

IsForbidden(r) == r.status = 403

\* C21 as claimed: requireAdmin passes a token only if it verifies, its role
\* claim is admin and its normalized email claim is in ALLOWED_ADMINS; a
\* verifying token with role admin and an email claim outside the set is
\* answered Forbidden, and so is a verifying token with any other role.
C21_GuardAsClaimed ==
    \A token \in GuardTokens \cup issued :
        LET r == requireAdmin(token, now)
        IN  /\ r = Passed => /\ jwtVerify(token, now)
                             /\ token.role = RoleAdmin
                             /\ normEmail(token.email) \in ALLOWED_ADMINS
            /\ ( /\ jwtVerify(token, now)
                 /\ token.role = RoleAdmin
                 /\ normEmail(token.email) \notin ALLOWED_ADMINS ) => IsForbidden(r)
            /\ ( /\ jwtVerify(token, now)
                 /\ token.role # RoleAdmin ) => IsForbidden(r)

\* C21: requireAdmin passes a token only if it verifies, its role claim
\* lower-cased is admin and its email claim trimmed and lower-cased is in
\* ALLOWED_ADMINS; a verifying token whose lower-cased role is not admin is
\* answered 403, a verifying admin token with a non-blank email outside the
\* set is answered 403, and one with a missing or blank email is answered 401.
C21_GuardPassesOnlyAllowedAdmins ==
    \A token \in GuardTokens \cup issued :
        LET r == requireAdmin(token, now)
            role == ToLowerCase(token.role)
            email == normEmail(token.email)
        IN  /\ r = Passed <=> /\ jwtVerify(token, now)
                              /\ role = RoleAdmin
                              /\ email \in ALLOWED_ADMINS
            /\ ( jwtVerify(token, now) /\ role # RoleAdmin ) => IsForbidden(r)
            /\ ( /\ jwtVerify(token, now)
                 /\ role = RoleAdmin
                 /\ email \notin ALLOWED_ADMINS )
               => IF email = << >>
                  THEN r.status = 401 /\ r.message = "Invalid token"
                  ELSE IsForbidden(r)
            /\ ~jwtVerify(token, now) => r.status = 401

\* an admin and a user are logged in: the admin's token passes the guard, the
\* user's token is answered 403, and so is a token signed for an admin role
\* with an email outside the set
C21_Witness ==
    /\ \E a \in AdminTokens : requireAdmin(a, now) = Passed
    /\ \E u \in UserTokens :
          jwtVerify(u, now) /\ requireAdmin(u, now).message = "Admin only"
    /\ \E token \in GuardTokens :
          /\ jwtVerify(token, now)
          /\ token.role = RoleAdmin
          /\ token.email = EmailA
          /\ requireAdmin(token, now).message = "Not allowed"

\* C22: over every step, the token_version of every user row and admin row
\* that stays stays the same or goes up by one, and a new row starts at 0; it
\* goes up only in a successful logout of a token of that user, or in a
\* force-logout for that id that got past requireAdmin, and each of these
\* adds exactly one; register, login, reset-password, user update and admin
\* update leave every token_version as it was.
C22_TokenVersionOnlyGrows ==
    [][ /\ register_random' # register_random
             => /\ \A id \in DOMAIN register_random' :
                     IF id \in DOMAIN register_random
                     THEN \/ register_random'[id].token_version
                               = register_random[id].token_version
                          \/ /\ register_random'[id].token_version
                                   = register_random[id].token_version + 1
                             /\ \/ \E token \in Bearers :
                                       /\ token.id = id
                                       /\ LogoutResult(register_random, now,
                                                       token).status = 200
                                       /\ Logout(token)
                                \/ \E token \in Bearers :
                                       /\ requireAdmin(token, now) = Passed
                                       /\ UserForceLogout(token, id)
                     ELSE register_random'[id].token_version = 0
                /\ \A token \in Bearers :
                     ( /\ LogoutResult(register_random, now, token).status = 200
                       /\ Logout(token) )
                     => register_random'[token.id].token_version
                          = register_random[token.id].token_version + 1
                /\ \A token \in Bearers, id \in AccountIds :
                     ( /\ UserForceLogoutResult(register_random, now, token,
                                                id).status = 200
                       /\ UserForceLogout(token, id) )
                     => register_random'[id].token_version
                          = register_random[id].token_version + 1
        /\ admin_random' # admin_random
             => /\ \A a \in DOMAIN admin_random' :
                     /\ a \in DOMAIN admin_random
                     /\ \/ admin_random'[a].token_version
                               = admin_random[a].token_version
                        \/ /\ admin_random'[a].token_version
                                 = admin_random[a].token_version + 1
                           /\ \E token \in Bearers :
                                 /\ requireAdmin(token, now) = Passed
                                 /\ AdminForceLogout(token, a)
                /\ \A token \in Bearers, a \in AccountIds :
                     ( /\ requireAdmin(token, now) = Passed
                       /\ MapHas(admin_random, a)
                       /\ AdminForceLogout(token, a) )
                     => admin_random'[a].token_version
                          = admin_random[a].token_version + 1
      ]_vars

\* the first user has been logged out twice and updated, the first admin
\* force-logged-out once and updated, and a second credential operation
\* (a registration, or a password reset) has taken place
C22_Witness ==
    /\ register_random[1].token_version = 2
    /\ register_random[1].mobile_number = Mobile1
    /\ admin_random[1].token_version = 1
    /\ admin_random[1].password_hash = bcryptHash(Pw2)
    /\ \E tok \in 1 .. MaxTokens : tokenUses[tok] = 1

\* the session tokens POST /login can sign at Now0
SessionTokens ==
    { jwtSign([ id |-> i, admin_id |-> 0, email |-> << >>, role |-> RoleUser,
                token_version |-> v ], Now0) :
      i \in 1 .. 3, v \in 0 .. MaxBumps }

\* C23: once requireUserJWT has answered "Session expired" to an issued user
\* token because its token_version is lower than the one stored in the
\* user's row, it never passes that token again, whatever login, logout,
\* force-logout, reset-password, registration or update follows.
C23_RevocationIsPermanent ==
    \A k \in SessionTokens :
        []( ( /\ k \in issued
              /\ requireUserJWT(register_random, k, now) = SessionExpired
              /\ k.token_version < register_random[k.id].token_version )
            => [](requireUserJWT(register_random, k, now) # Passed) )

\* a token of the first user was revoked; since then the user logged in
\* again, logged out again and had the password replaced, and the first
\* token is still answered "Session expired"
C23_Witness ==
    \E k1, k2 \in UserTokens :
        /\ k1.id = 1
        /\ k2.id = 1
        /\ k2.token_version = k1.token_version + 1
        /\ register_random[1].token_version = k1.token_version + 2
        /\ register_random[1].password_hash = bcryptHash(Pw2)
        /\ requireUserJWT(register_random, k1, now) = SessionExpired

\* why a presented token is not consumed, in the order the handlers test it
TokenFailure(tokens, t, tok, email) ==
    IF ~MapHas(tokens, tok) THEN "NotFound"
    ELSE IF t > tokens[tok].expiresAt THEN "Expired"
    ELSE IF tokens[tok].email # email THEN "Mismatch"
    ELSE "None"

\* C24 as claimed: for each register handler and for reset-password, two
\* well-formed requests whose tokens fail for different reasons (unknown,
\* expired, bound to another email) get responses that differ in status or
\* message.
C24_TokenFailuresAreDistinct ==
    \A raw1, raw2 \in MoreEmails, tok1, tok2 \in 1 .. MaxTokens + 1 :
        LET tokens == verifiedTokenStore[router]
            f1 == TokenFailure(tokens, now, tok1, Normalized[raw1])
            f2 == TokenFailure(tokens, now, tok2, Normalized[raw2])
        IN  ( /\ f1 # "None"
              /\ f2 # "None"
              /\ f1 # f2 )
            => IF router = "auth"
               THEN \A ver \in RegisterVersions :
                       LET r1 == RegisterResult(ver, tokens, register_random, now,
                                                raw1, Mobile1, Pw2, tok1,
                                                usersCreated + 3)
                           r2 == RegisterResult(ver, tokens, register_random, now,
                                                raw2, Mobile1, Pw2, tok2,
                                                usersCreated + 3)
                       IN  ( /\ RegisterValidate(ver, Normalized[raw1], Mobile1,
                                                  Pw2, tok1).status = 0
                             /\ RegisterValidate(ver, Normalized[raw2], Mobile1,
                                                  Pw2, tok2).status = 0 )
                           => << r1.status, r1.message >> # << r2.status, r2.message >>
               ELSE LET r1 == ResetPasswordResult(tokens, register_random, now,
                                                  raw1, Pw2, tok1)
                        r2 == ResetPasswordResult(tokens, register_random, now,
                                                  raw2, Pw2, tok2)
                    IN  ( /\ ResetValidate(Normalized[raw1], Pw2, tok1).status = 0
                          /\ ResetValidate(Normalized[raw2], Pw2, tok2).status = 0 )
                        => << r1.status, r1.message >> # << r2.status, r2.message >>

\* C25 as claimed: a step replaces a user's password hash only if it is a
\* reset-password that accepted a token bound to that user's email, or an
\* update made with a bearer token that passes requireAdmin; when no client
\* holds such a token, no update changes a password hash.
C25_PasswordChangesAreAuthorized ==
    [][ register_random' # register_random
          => \A id \in DOMAIN register_random \cap DOMAIN register_random' :
                register_random'[id].password_hash # register_random[id].password_hash
                => \/ \E raw \in AccountEmails, tok \in DOMAIN verifiedTokenStore["forgot"] :
                         /\ verifiedTokenStore["forgot"][tok].email
                               = register_random[id].email_address
                         /\ Normalized[raw] = register_random[id].email_address
                         /\ now <= verifiedTokenStore["forgot"][tok].expiresAt
                         /\ ResetPassword(raw, Pw2, tok)
                   \/ \E token \in Bearers, body \in UserUpdates :
                         /\ requireAdmin(token, now) = Passed
                         /\ UpdateUser(id, body.email, body.mobile, body.password)
      ]_vars

\* C26: a login answered 200 returns a token signed for the id of the row
\* the username and password match, with role "user", the token_version the
\* row holds and an expiry TOKEN_EXP_S later, and requireUserJWT passes that
\* token in the state the login leaves, also when the user has logged out
\* before and earlier tokens are answered "Session expired"; every other
\* login returns no token.
C26_LoginSignsTheStoredVersion ==
    \A username \in RawUsernames, password \in RawLoginPasswords :
        LET r == LoginResult(register_random, now, username, password)
        IN  IF r.status = 200
            THEN /\ r.token.id \in FindUser(register_random, username)
                 /\ bcryptCompare(password, register_random[r.token.id].password_hash)
                 /\ r.token.role = RoleUser
                 /\ r.token.token_version = register_random[r.token.id].token_version
                 /\ r.token.exp = (now \div 1000) + TOKEN_EXP_S
                 /\ r.token.signed
                 /\ requireUserJWT(register_random, r.token, now) = Passed
            ELSE r.token = NoToken

\* a user logged in, logged out and logged in again: the first token is
\* answered "Session expired", the second one carries version 1 and passes
C26_Witness ==
    \E k1, k2 \in UserTokens, username \in RawUsernames,
       password \in RawLoginPasswords :
        /\ k1.id = k2.id
        /\ k1.token_version = 0
        /\ k2.token_version = 1
        /\ LoginResult(register_random, now, username, password).token = k2
        /\ requireUserJWT(register_random, k1, now) = SessionExpired
        /\ requireUserJWT(register_random, k2, now) = Passed

\* C27: every challenge on the ledger has the four fields otpHash, expiresAt,
\* attempts, lastSentAt and no other, and otpHash is a bcrypt hash; two
\* send-otp requests that differ only in the code drawn for them get the same
\* response and leave ledgers that differ only in otpHash, the hash of the
\* code that went to sendOTP; a verify-otp response is a status, a message
\* and, on success, a token entry made of the email and an expiry.
C27_RawCodeStaysOutOfLedgerAndResponses ==
    /\ \A f \in Flows : \A e \in DOMAIN otpStoreByEmail[f] :
          /\ DOMAIN otpStoreByEmail[f][e]
                = { "otpHash", "expiresAt", "attempts", "lastSentAt" }
          /\ isBcryptHash(otpStoreByEmail[f][e].otpHash)
          /\ otpStoreByEmail[f][e].otpHash = bcryptHash(dispatched[f][e])
    /\ \A raw \in RawEmails, delivered \in BOOLEAN, otp1, otp2 \in OtpCodes :
          LET r1 == SendOtpNow(router, raw, otp1, delivered)
              r2 == SendOtpNow(router, raw, otp2, delivered)
              e == Normalized[raw]
          IN  /\ r1.status = r2.status
              /\ r1.message = r2.message
              /\ r1.stored = r2.stored
              /\ r1.stored
                    => /\ r1.store[e].otpHash = bcryptHash(otp1)
                       /\ r2.store[e].otpHash = bcryptHash(otp2)
                       /\ [ r1.store EXCEPT ![e].otpHash = bcryptHash(otp2) ]
                             = r2.store
    /\ \A raw \in RawEmails, otp \in RawOtps :
          LET r == VerifyOtpNow(router, raw, otp)
          IN  /\ DOMAIN r = { "store", "tokens", "status", "message" }
              /\ \A tok \in DOMAIN r.tokens :
                    DOMAIN r.tokens[tok] = { "email", "expiresAt" }
              /\ \A e \in DOMAIN r.store :
                    r.store[e].otpHash = otpStoreByEmail[router][e].otpHash

\* a challenge for the larger code is on the ledger, a token was minted
\* before it, and a resend now would be accepted with either code
C27_Witness ==
    \E raw \in RawEmails :
        /\ Live(router, Normalized[raw])
        /\ dispatched[router][Normalized[raw]] = 999999
        /\ tokensMinted = 1
        /\ SendOtpNow(router, raw, 100000, TRUE).stored

OtherFlow(f) == CHOOSE g \in Flows : g # f

\* C28: the two routers keep separate ledgers. No token is in both token
\* stores; a reset-password presenting a token of the registration store and
\* a register presenting a token of the forgot-password store are answered
\* 400 or 401 and change no row; a step that replaces a password hash
\* consumes a token of the forgot-password store and leaves the registration
\* store alone, a step that inserts a row consumes a token of the
\* registration store and leaves the other alone; and a send-otp or
\* verify-otp of one router leaves the other router's challenges and tokens
\* as they were.
C28_FlowsHaveDisjointLedgers ==
    /\ [](/\ DOMAIN verifiedTokenStore["auth"] \cap DOMAIN verifiedTokenStore["forgot"]
               = { }
          /\ \A tok \in DOMAIN verifiedTokenStore["auth"], raw \in AccountEmails :
                LET r == ResetPasswordResult(verifiedTokenStore["forgot"],
                                             register_random, now, raw, Pw2, tok)
                IN  r.status \in { 400, 401 } /\ r.db = register_random
          /\ \A tok \in DOMAIN verifiedTokenStore["forgot"], raw \in AccountEmails,
                ver \in RegisterVersions :
                LET r == RegisterResult(ver, verifiedTokenStore["auth"],
                                        register_random, now, raw, Mobile1, Pw2,
                                        tok, usersCreated + 3)
                IN  r.status \in { 400, 401 } /\ r.db = register_random)
    /\ [][ /\ register_random' # register_random
              => IF DOMAIN register_random' = DOMAIN register_random
                 THEN /\ verifiedTokenStore'["auth"] = verifiedTokenStore["auth"]
                      /\ \E tok \in DOMAIN verifiedTokenStore["forgot"] :
                            verifiedTokenStore'["forgot"]
                              = MapDelete(verifiedTokenStore["forgot"], tok)
                 ELSE /\ verifiedTokenStore'["forgot"] = verifiedTokenStore["forgot"]
                      /\ \E tok \in DOMAIN verifiedTokenStore["auth"] :
                            verifiedTokenStore'["auth"]
                              = MapDelete(verifiedTokenStore["auth"], tok)
           /\ \A f \in Flows :
                otpStoreByEmail'[f] # otpStoreByEmail[f]
                => /\ otpStoreByEmail'[OtherFlow(f)] = otpStoreByEmail[OtherFlow(f)]
                   /\ verifiedTokenStore'[OtherFlow(f)]
                         = verifiedTokenStore[OtherFlow(f)]
                   /\ \E raw \in AccountEmails, otp \in OtpCodes :
                         SendOtp(f, raw, SentCode, TRUE) \/ VerifyOtp(f, raw, otp)
       ]_vars

\* one email, registered with a token of the registration store, holds a
\* challenge in each ledger, with wrong attempts counted in the
\* forgot-password ledger only
C28_Witness ==
    \E e \in NormEmails, tok \in 1 .. MaxTokens :
        /\ Live("auth", e)
        /\ Live("forgot", e)
        /\ otpStoreByEmail["auth"][e].attempts = 0
        /\ otpStoreByEmail["forgot"][e].attempts = 2
        /\ tokenUses[tok] = 1
        /\ EmailRegistered(register_random, e)

----------------------------------------------------------------------------
\* the token tok of the store passes the token test of every later request
\* for its email, up to the instant it expires
StillConsumable(f, tokens, tok) ==
    /\ MapHas(tokens, tok)
    /\ \A t \in ConsumeInstants :
          (now <= t /\ t <= tokens[tok].expiresAt) =>
              IF f = "auth"
              THEN \A ver \in RegisterVersions :
                      RegisterTokenCheck(ver, tokens, t, tok, tokens[tok].email).status = 0
              ELSE TokenCheckReset(tokens, t, tok, tokens[tok].email).status = 0

\* the answers to every register and reset-password request that presents
\* the token tok in the current state, the database throwing or not
RegisterAnswers(tok) ==
    { RegisterResult(ver, verifiedTokenStore["auth"], register_random, now, raw,
                     mobile, Pw1, tok, usersCreated + 3) :
        ver \in RegisterVersions, raw \in AccountEmails, mobile \in ConsumeMobiles }
    \cup
    { RegisterResultThrown(ver, verifiedTokenStore["auth"], register_random, now,
                           raw, mobile, Pw1, tok) :
        ver \in RegisterVersions, raw \in AccountEmails, mobile \in ConsumeMobiles }

ResetAnswers(tok) ==
    { ResetPasswordResult(verifiedTokenStore["forgot"], register_random, now, raw,
                          Pw2, tok) : raw \in AccountEmails }
    \cup
    { ResetPasswordResultThrown(verifiedTokenStore["forgot"], register_random, now,
                                raw, Pw2, tok) : raw \in AccountEmails }

\* C29: a verification token leaves its store only in a step that found it
\* expired or in the step of the register / reset-password that it authorized
\* and that wrote the row; every request that presents an unexpired token and
\* is answered with anything but success (409 Conflict, 404 "Email not found",
\* 401 for an email mismatch, 500 after a throw) leaves the token store and the
\* table as they were, and the token still passes the token test of a later
\* request for its email until it expires.
C29_TokenIsDeletedOnlyAfterSuccess ==
    /\ [](\A tok \in 1 .. MaxTokens :
            /\ (/\ MapHas(verifiedTokenStore["auth"], tok)
                /\ now <= verifiedTokenStore["auth"][tok].expiresAt) =>
                   \A r \in RegisterAnswers(tok) :
                       r.status # 201 =>
                           /\ r.tokens = verifiedTokenStore["auth"]
                           /\ r.db = register_random
                           /\ StillConsumable("auth", r.tokens, tok)
            /\ (/\ MapHas(verifiedTokenStore["forgot"], tok)
                /\ now <= verifiedTokenStore["forgot"][tok].expiresAt) =>
                   \A r \in ResetAnswers(tok) :
                       r.status # 200 =>
                           /\ r.tokens = verifiedTokenStore["forgot"]
                           /\ r.db = register_random
                           /\ StillConsumable("forgot", r.tokens, tok))
    /\ [][\A f \in Flows, tok \in 1 .. MaxTokens :
            (MapHas(verifiedTokenStore[f], tok) /\ ~MapHas(verifiedTokenStore'[f], tok)) =>
                \/ now > verifiedTokenStore[f][tok].expiresAt
                \/ /\ tokenUses'[tok] = tokenUses[tok] + 1
                   /\ IF f = "auth"
                      THEN \E id \in DOMAIN register_random' \ DOMAIN register_random :
                              register_random'[id].email_address =
                                  verifiedTokenStore[f][tok].email
                      ELSE \E id \in DOMAIN register_random :
                              /\ register_random[id].email_address =
                                     verifiedTokenStore[f][tok].email
                              /\ register_random'[id].password_hash = bcryptHash(Pw2)]_vars

\* a forgot-password token whose email is no longer registered (its reset is
\* answered 404) next to a registration token whose email is now taken (its
\* register is answered 409); both requests, and the ones that throw, have left
\* the two tokens in their stores
C29_Witness ==
    \E tokF \in 1 .. MaxTokens, tokA \in 1 .. MaxTokens :
        /\ MapHas(verifiedTokenStore["forgot"], tokF)
        /\ MapHas(verifiedTokenStore["auth"], tokA)
        /\ now <= verifiedTokenStore["forgot"][tokF].expiresAt
        /\ now <= verifiedTokenStore["auth"][tokA].expiresAt
        /\ \E r \in ResetAnswers(tokF) : r.status = 404
        /\ \E r \in ResetAnswers(tokF) : r.status = 500
        /\ \E r \in RegisterAnswers(tokA) : r.status = 409
        /\ \E r \in RegisterAnswers(tokA) : r.status = 500
        /\ \E r \in RegisterAnswers(tokA) :
               r.status = 401 /\ r.message = "verify_token does not match email"

----------------------------------------------------------------------------
\* C30: a reset-password that succeeds (it consumes a token of the forgot
\* store) writes password_hash of the rows with the token's email and no
\* other column of any row: every token_version is as before, so every
\* session token that requireUserJWT accepted before the step it accepts
\* after it; the OTP ledgers, the other token store and the administrators
\* are unchanged, and the forgot store loses the consumed token only.
C30_ResetChangesOnlyThePasswordHash ==
    [][\A tok \in 1 .. MaxTokens :
          (/\ tokenUses'[tok] # tokenUses[tok]
           /\ MapHas(verifiedTokenStore["forgot"], tok)
           /\ ~MapHas(verifiedTokenStore'["forgot"], tok)) =>
              LET email == verifiedTokenStore["forgot"][tok].email
              IN  /\ DOMAIN register_random' = DOMAIN register_random
                  /\ \A id \in DOMAIN register_random :
                        register_random'[id] =
                            IF register_random[id].email_address = email
                            THEN [ register_random[id] EXCEPT
                                     !.password_hash = bcryptHash(Pw2) ]
                            ELSE register_random[id]
                  /\ \E id \in DOMAIN register_random :
                        register_random[id].email_address = email
                  /\ \A id \in DOMAIN register_random :
                        register_random'[id].token_version =
                            register_random[id].token_version
                  /\ \A k \in issued :
                        requireUserJWT(register_random, k, now) = Passed =>
                            requireUserJWT(register_random', k, now') = Passed
                  /\ otpStoreByEmail' = otpStoreByEmail
                  /\ verifiedTokenStore' =
                        [ verifiedTokenStore EXCEPT
                            !["forgot"] = MapDelete(verifiedTokenStore["forgot"], tok) ]
                  /\ admin_random' = admin_random
                  /\ issued' = issued]_vars

\* a reset has replaced the password of an account whose sessions had been
\* revoked once; a session token of the account is accepted, and the ledger
\* holds a challenge
C30_Witness ==
    \E tok \in 1 .. MaxTokens, k \in issued :
        /\ router = "forgot"
        /\ tokenUses[tok] = 1
        /\ ~MapHas(verifiedTokenStore["forgot"], tok)
        /\ k.role = RoleUser
        /\ MapHas(register_random, k.id)
        /\ register_random[k.id].password_hash = bcryptHash(Pw2)
        /\ register_random[k.id].token_version = 1
        /\ requireUserJWT(register_random, k, now) = Passed
        /\ Live("forgot", register_random[k.id].email_address)

----------------------------------------------------------------------------
\* C31: the tokens of the two logins are not interchangeable.  A token that
\* POST /login signs carries the claim id and no admin_id, a token that POST
\* /admin/login signs carries admin_id and no id; in every later state
\* requireAdmin turns down each token that carries id, and requireUserJWT
\* turns down each token that carries admin_id, at every instant.
C31_TokensAreNotInterchangeable ==
    /\ [](\A k \in issued, t \in SessionInstants :
            /\ k.id # 0 => requireAdmin(k, t) # Passed
            /\ k.admin_id # 0 => requireUserJWT(register_random, k, t) # Passed)
    /\ [][issued' # issued =>
            \A k \in issued' \ issued :
                /\ (\E username \in RawUsernames \cup AccountUsernames,
                          password \in RawLoginPasswords :
                       Login(username, password))
                   => (k.id # 0 /\ k.admin_id = 0)
                /\ (\E username \in RawAdminNames, password \in RawLoginPasswords :
                       AdminLogin(username, password))
                   => (k.admin_id # 0 /\ k.id = 0)]_vars

\* a user token and an admin token are out, each accepted by its own guard,
\* the admin's key being the id of a registered user
C31_Witness ==
    \E u \in issued, a \in issued :
        /\ u.id # 0
        /\ a.admin_id # 0
        /\ requireUserJWT(register_random, u, now) = Passed
        /\ requireAdmin(a, now) = Passed
        /\ MapHas(register_random, a.admin_id)
        /\ register_random[a.admin_id].token_version = a.token_version

----------------------------------------------------------------------------
\* C32: a registration send-otp for a registered email is answered 409, a
\* forgot-password send-otp for an unregistered email is answered 404, and in
\* both cases sendOTP is not called and the ledger is left as it was: no
\* challenge is stored or replaced and no lastSentAt is written, whether or
\* not the email already holds a challenge.
C32_BlockedSendOtpLeavesTheLedger ==
    /\ [](\A f \in Flows, raw \in AccountEmails, otp \in OtpCodes, d \in BOOLEAN :
            LET email == Normalized[raw]
                r == SendOtpResult(f, register_random, otpStoreByEmail[f], now,
                                   raw, otp, d)
                blocked == IF f = "auth"
                           THEN EmailRegistered(register_random, email)
                           ELSE ~EmailRegistered(register_random, email)
            IN  blocked =>
                    /\ r.status = IF f = "auth" THEN 409 ELSE 404
                    /\ r.store = otpStoreByEmail[f]
                    /\ ~r.stored
                    /\ r.sendOTPCalls = 0)
    /\ [][\/ UNCHANGED << otpStoreByEmail, dispatched, issuedAt, challengesStored >>
          \/ \A f \in Flows, raw \in AccountEmails :
                ~(/\ IF f = "auth"
                     THEN EmailRegistered(register_random, Normalized[raw])
                     ELSE ~EmailRegistered(register_random, Normalized[raw])
                  /\ SendOtp(f, raw, SentCode, TRUE))]_vars

\* both refusals are due for emails that hold a challenge: the registration
\* ledger holds one for an email that has since been registered, the
\* forgot-password ledger one for an email that is no longer registered, and
\* the cooldown of both is over
C32_Witness ==
    \E a \in NormEmails, b \in NormEmails :
        /\ Live("auth", a)
        /\ EmailRegistered(register_random, a)
        /\ now - otpStoreByEmail["auth"][a].lastSentAt >= OTP_RESEND_COOLDOWN_MS
        /\ Live("forgot", b)
        /\ ~EmailRegistered(register_random, b)
        /\ now - otpStoreByEmail["forgot"][b].lastSentAt >= OTP_RESEND_COOLDOWN_MS

----------------------------------------------------------------------------
\* what a client can type as password, the empty one included
TypedPasswords == RawLoginPasswords \cup { << >> }

\* admin_random as it is, and with a row that was inserted by hand for an
\* email outside ALLOWED_ADMINS
AdminTables ==
    { admin_random,
      MapSet(admin_random, 3,
             [ email_username |-> << "r", "o", "o", "t", "@", "x", ".", "y" >>,
               password_hash |-> bcryptHash(Pw1), is_active |-> TRUE,
               token_version |-> 0 ]) }

PasswordMatches(stored, password) ==
    IF isBcryptHash(stored) THEN bcryptCompare(password, stored) ELSE password = stored

\* C33: POST /admin/login answers 200 with a token only if the normalized
\* email is in ALLOWED_ADMINS, a row of admin_random has that email, the row
\* is active and the password matches what the row stores; otherwise it sends
\* no token.  An email outside the allow-list is answered 403 whether or not
\* a row holds it, and a disabled account is answered 403 whether or not the
\* password is right.  Every token the handler signs carries role admin and
\* an allow-listed email.
C33_AdminLoginConditions ==
    /\ [](\A admins \in AdminTables, username \in RawAdminNames,
            password \in TypedPasswords :
            LET email == normEmail(username)
                r == AdminLoginResult(admins, now, username, password)
                rows == { a \in DOMAIN admins :
                            ToLowerCase(admins[a].email_username) = email }
            IN  /\ (r.token # NoToken) <=> (r.status = 200)
                /\ r.status = 200 =>
                      /\ email \in ALLOWED_ADMINS
                      /\ \E a \in rows :
                            /\ admins[a].is_active
                            /\ PasswordMatches(admins[a].password_hash, password)
                            /\ r.token.admin_id = a
                      /\ r.token.role = RoleAdmin
                      /\ r.token.email = email
                /\ (email \notin ALLOWED_ADMINS /\ password # << >>) =>
                      (r.status = 403
                       /\ r.message = "This email is not allowed as admin")
                /\ (/\ email \in ALLOWED_ADMINS
                    /\ password # << >>
                    /\ rows # { }
                    /\ \A a \in rows : ~admins[a].is_active) =>
                      (r.status = 403 /\ r.message = "Admin account is disabled"))
    /\ [](\A k \in issued :
            k.role = RoleAdmin /\ k.email \in ALLOWED_ADMINS /\ k.signed)

\* one administrator is disabled and holds the password that is typed, the
\* other is active, had its password replaced and has logged in since
C33_Witness ==
    \E a \in DOMAIN admin_random, b \in DOMAIN admin_random, k \in issued :
        /\ ~admin_random[a].is_active
        /\ \E password \in RawLoginPasswords :
              PasswordMatches(admin_random[a].password_hash, password)
        /\ admin_random[b].is_active
        /\ admin_random[b].password_hash = bcryptHash(Pw2)
        /\ k.admin_id = b
        /\ k.token_version = 1
        /\ k.token_version = admin_random[b].token_version

----------------------------------------------------------------------------
\* C34: a POST /logout that succeeds with a token raises the token_version of
\* the token's user by exactly 1 and leaves the token stale; the same token
\* presented to POST /logout again, at once or after any other requests, is
\* answered 401 by the guard and the table is not written.
C34_LogoutIsOneShot ==
    /\ [](\A k \in issued :
            LET r1 == LogoutResult(register_random, now, k)
                r2 == LogoutResult(r1.db, now, k)
            IN  r1.status = 200 =>
                    /\ r1.db[k.id].token_version
                          = register_random[k.id].token_version + 1
                    /\ r2.status = 401
                    /\ r2.message = "Session expired. Please login again."
                    /\ r2.db = r1.db)
    /\ [][\A k \in issued :
            (LogoutResult(register_random, now, k).status = 200 /\ Logout(k)) =>
                /\ register_random'[k.id].token_version = k.token_version + 1
                /\ LogoutResult(register_random', now', k).status = 401]_vars
    /\ \A k \in SessionTokens :
          []( ( /\ k \in issued
                /\ k.token_version < register_random[k.id].token_version )
              => []( /\ LogoutResult(register_random, now, k).status = 401
                     /\ LogoutResult(register_random, now, k).db = register_random ) )

\* no administrator has logged in, so only POST /logout has raised a version:
\* the first user logged out with one token, logged in again, and the first
\* token is turned down while the second is accepted
C34_Witness ==
    \E k1, k2 \in UserTokens :
        /\ \A a \in issued : a.admin_id = 0
        /\ k1.id = 1
        /\ k2.id = 1
        /\ k1.token_version = 0
        /\ k2.token_version = 1
        /\ register_random[1].token_version = 1
        /\ LogoutResult(register_random, now, k1).status = 401
        /\ LogoutResult(register_random, now, k2).status = 200

----------------------------------------------------------------------------
\* the rows of db other than id are the rows of old
OtherRowsKept(old, db, id) ==
    /\ DOMAIN db = DOMAIN old
    /\ \A j \in DOMAIN old \ { id } : db[j] = old[j]

\* C35: POST /logout, PATCH /admin/users/:id/force-logout and PATCH
\* /admin/:id/force-logout, when they succeed, add 1 to the token_version of
\* the row they name (the token's user, the user id, the admin id) and write
\* no other row of either table, so each session token of another user is
\* answered by requireUserJWT as before; a user force-logout for an id that
\* has no row is answered 404 and writes nothing.
C35_OnlyTheTargetIsLoggedOut ==
    /\ [](\A token \in Bearers, id \in RawIds :
            LET lo == LogoutResult(register_random, now, token)
                uf == UserForceLogoutResult(register_random, now, token, id)
                af == AdminForceLogoutResult(admin_random, now, token, id)
            IN  /\ lo.status = 200 =>
                      /\ lo.db[token.id].token_version
                            = register_random[token.id].token_version + 1
                      /\ OtherRowsKept(register_random, lo.db, token.id)
                      /\ \A k \in issued :
                            k.id # token.id =>
                                requireUserJWT(lo.db, k, now)
                                    = requireUserJWT(register_random, k, now)
                /\ uf.status = 200 =>
                      /\ uf.db[id].token_version
                            = register_random[id].token_version + 1
                      /\ OtherRowsKept(register_random, uf.db, id)
                      /\ \A k \in issued :
                            k.id # id =>
                                requireUserJWT(uf.db, k, now)
                                    = requireUserJWT(register_random, k, now)
                /\ (requireAdmin(token, now) = Passed /\ ~MapHas(register_random, id)) =>
                      (uf.status = 404 /\ uf.db = register_random)
                /\ af.status = 200 =>
                      /\ MapHas(admin_random, id) =>
                            af.db[id].token_version
                                = admin_random[id].token_version + 1
                      /\ OtherRowsKept(admin_random, af.db, id))
    /\ [][/\ register_random' # register_random =>
                /\ admin_random' = admin_random
                /\ \E id \in DOMAIN register_random :
                      /\ register_random' = IncrementTokenVersion(register_random, id)
                      /\ \A k \in issued :
                            k.id # id =>
                                requireUserJWT(register_random', k, now')
                                    = requireUserJWT(register_random, k, now)
          /\ admin_random' # admin_random =>
                /\ register_random' = register_random
                /\ \E id \in DOMAIN admin_random :
                      admin_random' = IncrementTokenVersion(admin_random, id)]_vars

\* the second user holds an accepted token while the first user, who has the
\* key of an administrator, has had its sessions revoked twice; the
\* administrator with the key of the second user has been force-logged-out
C35_Witness ==
    \E k \in UserTokens, a \in AdminTokens :
        /\ k.id = 2
        /\ requireUserJWT(register_random, k, now) = Passed
        /\ register_random[1].token_version = 2
        /\ register_random[2].token_version = 0
        /\ admin_random[2].token_version = 1
        /\ admin_random[1].token_version = 0
        /\ requireAdmin(a, now) = Passed
        /\ ~MapHas(register_random, 3)

----------------------------------------------------------------------------
\* the token tok is in the registration store, bound to email, and was minted
\* by a verify-otp at most VERIFY_TOKEN_TTL_MS before now
LiveTokenFor(tok, email) ==
    /\ tok \in 1 .. tokensMinted
    /\ MapHas(verifiedTokenStore["auth"], tok)
    /\ verifiedTokenStore["auth"][tok].email = email
    /\ now <= verifiedTokenStore["auth"][tok].expiresAt
    /\ now - (verifiedTokenStore["auth"][tok].expiresAt - VERIFY_TOKEN_TTL_MS)
          <= 15 * 60 * 1000

\* C36: POST /register (either handler) answers 201 and inserts a row only
\* when the request presents a token that is in the registration store, is
\* bound to the normalized email of the request and was minted by a
\* successful verify-otp at most 15 minutes before; every other request
\* leaves register_random as it was.  Each row that appears in the table
\* carries the email of the token that the step consumed.
C36_RegisterNeedsALiveToken ==
    /\ [](\A ver \in RegisterVersions, raw \in MoreEmails, mobile \in RawMobiles,
            password \in RawPasswords, tok \in RawTokens :
            LET r == RegisterResult(ver, verifiedTokenStore["auth"], register_random,
                                    now, raw, mobile, password, tok, usersCreated + 3)
            IN  IF r.status = 201
                THEN /\ LiveTokenFor(tok, Normalized[raw])
                     /\ DOMAIN r.db = DOMAIN register_random \cup { usersCreated + 3 }
                     /\ r.db[usersCreated + 3].email_address = Normalized[raw]
                ELSE r.db = register_random)
    /\ [][DOMAIN register_random' # DOMAIN register_random =>
            \A id \in DOMAIN register_random' \ DOMAIN register_random :
                \E tok \in 1 .. MaxTokens :
                    /\ LiveTokenFor(tok, register_random'[id].email_address)
                    /\ tokenUses'[tok] = tokenUses[tok] + 1
                    /\ ~MapHas(verifiedTokenStore'["auth"], tok)]_vars

\* a row was inserted with a token, and a second token, minted for the same
\* email, has expired in the store
C36_Witness ==
    \E id \in DOMAIN register_random, tok \in 1 .. MaxTokens, old \in 1 .. MaxTokens :
        /\ id >= 3
        /\ tokenUses[tok] = 1
        /\ ~MapHas(verifiedTokenStore["auth"], tok)
        /\ MapHas(verifiedTokenStore["auth"], old)
        /\ now > verifiedTokenStore["auth"][old].expiresAt
        /\ verifiedTokenStore["auth"][old].email = register_random[id].email_address

----------------------------------------------------------------------------
\* the session tokens POST /login can sign for the users that can exist
UserSessionTokens ==
    { jwtSign([ id |-> i, admin_id |-> 0, email |-> << >>, role |-> RoleUser,
                token_version |-> v ], Now0) :
      i \in 1 .. MaxNewUsers + 2, v \in 0 .. MaxBumps }

\* C37: once DELETE /users/:id has removed a user's row, requireUserJWT
\* answers 401 to every session token issued to that user, whatever version
\* the token carries, in the state the delete leaves and in every later one:
\* a registration that follows, of the same email included, gets a new id.
C37_DeletedUsersTokensAreRejected ==
    /\ [][\A id \in RawIds :
            (MapHas(register_random, id) /\ DeleteUser(id)) =>
                /\ ~MapHas(register_random', id)
                /\ \A k \in issued :
                      k.id = id =>
                          requireUserJWT(register_random', k, now')
                              = [ status |-> 401, message |-> "User not found" ]]_vars
    /\ \A k \in UserSessionTokens :
          []( (k \in issued /\ ~MapHas(register_random, k.id))
              => [](requireUserJWT(register_random, k, now) # Passed) )

\* the first user logged in and was deleted; its email has been registered
\* again and the new user has logged in, at the version the old token carries
C37_Witness ==
    \E k1, k2 \in issued :
        /\ k1.id = 1
        /\ ~MapHas(register_random, 1)
        /\ k2.id >= 3
        /\ MapHas(register_random, k2.id)
        /\ k1.token_version = register_random[k2.id].token_version
        /\ register_random[k2.id].email_address = EmailB
        /\ requireUserJWT(register_random, k2, now) = Passed

----------------------------------------------------------------------------
(* routes/document.js: the documents of the users.  A file is its path and *)
(* its content; multer names each file it saves with Date.now() and six    *)
(* random bytes, taken here as a path no file had before                   *)

\* rows inserted and files saved in one run
MaxDocs == 2
MaxFiles == 3

\* the state of the routers modelled above
accounts ==
    << now, otpStoreByEmail, verifiedTokenStore, register_random, tokensMinted,
       usersCreated, challengesStored, dispatched, issuedAt, wins, wrongCalls,
       tokenUses, router, reqs, admin_random, issued >>

\* request fields: the caller's id (0: neither req.user nor x-user-id), the
\* title (the empty sequence: left out), the content of the file part
\* (NoFile: no file part)
NoFile == ""
DocUsers == { 0, 1, 2 }
DocTitles == { << >>, << "t" >> }
DocContents == { NoFile, "X", "Y" }
DocIds == 1 .. MaxDocs + 1

requireAuth(userId) ==
    IF userId = 0 THEN [ status |-> 401, message |-> "Unauthorized" ] ELSE Passed

sha256File(files, p) == [ sha256 |-> files[p] ]
NoChecksum == [ sha256 |-> NoFile ]

\* unlink if the file exists; a path that names no file is left alone
deleteLocalFile(files, p) == IF MapHas(files, p) THEN MapDelete(files, p) ELSE files

\* the SELECT without AND user_id=$2
OwnRow_AnyUser(docs, id, user) == MapHas(docs, id)

\* SELECT * FROM document_random WHERE id=$1 AND user_id=$2
OwnRow(docs, id, user) == MapHas(docs, id) /\ docs[id].user_id = user

\* SELECT id FROM document_random WHERE user_id=$1 AND checksum_sha256=$2
\* (AND id<>$3: except is 0 when the query has no such clause)
DuplicateOf(docs, user, checksum, except) ==
    \E d \in DOMAIN docs \ { except } :
        docs[d].user_id = user /\ docs[d].checksum_sha256 = checksum

\* POST /api/documents; throws: a query of pool rejects
UploadResult(docs, files, user, title, content, newPath, newId, throws) ==
    LET saved == IF content # NoFile THEN MapSet(files, newPath, content) ELSE files
    IN  IF requireAuth(user) # Passed
        THEN [ docs |-> docs, files |-> files, status |-> 401,
               message |-> "Unauthorized" ]
        ELSE IF Trim(title) = << >>
        THEN [ docs |-> docs, files |-> deleteLocalFile(saved, newPath),
               status |-> 400, message |-> "document_title is required" ]
        ELSE IF content = NoFile
        THEN [ docs |-> docs, files |-> saved, status |-> 400,
               message |-> "file is required" ]
        ELSE IF throws
        THEN [ docs |-> docs, files |-> deleteLocalFile(saved, newPath),
               status |-> 500, message |-> "Server error" ]
        ELSE IF DuplicateOf(docs, user, sha256File(saved, newPath), 0)
        THEN [ docs |-> docs, files |-> deleteLocalFile(saved, newPath),
               status |-> 409,
               message |-> "Same document already uploaded (duplicate)" ]
        ELSE [ docs |-> MapSet(docs, newId,
                                [ user_id |-> user, document_title |-> Trim(title),
                                  file_path |-> newPath,
                                  checksum_sha256 |-> sha256File(saved, newPath) ]),
               files |-> saved, status |-> 201, message |-> "Document uploaded" ]

\* GET /api/documents/:id
GetDocumentResult(docs, user, id) ==
    IF requireAuth(user) # Passed
    THEN [ status |-> 401, message |-> "Unauthorized", row |-> << >> ]
    ELSE IF ~OwnRow(docs, id, user)
    THEN [ status |-> 404, message |-> "Document not found", row |-> << >> ]
    ELSE [ status |-> 200, message |-> "", row |-> << docs[id] >> ]

\* GET /api/documents/:id/download
DownloadResult(docs, files, user, id) ==
    IF requireAuth(user) # Passed
    THEN [ status |-> 401, message |-> "Unauthorized", sent |-> << >> ]
    ELSE IF ~OwnRow(docs, id, user)
    THEN [ status |-> 404, message |-> "Document not found", sent |-> << >> ]
    ELSE IF ~MapHas(files, docs[id].file_path)
    THEN [ status |-> 404, message |-> "File missing on server storage",
           sent |-> << >> ]
    ELSE [ status |-> 200, message |-> "", sent |-> << docs[id].file_path >> ]

\* DELETE /api/documents/:id
DeleteDocumentResult(docs, files, user, id, throws) ==
    IF requireAuth(user) # Passed
    THEN [ docs |-> docs, files |-> files, status |-> 401,
           message |-> "Unauthorized" ]
    ELSE IF throws
    THEN [ docs |-> docs, files |-> files, status |-> 500,
           message |-> "Server error" ]
    ELSE IF ~OwnRow(docs, id, user)
    THEN [ docs |-> docs, files |-> files, status |-> 404,
           message |-> "Document not found" ]
    ELSE [ docs |-> MapDelete(docs, id),
           files |-> deleteLocalFile(files, docs[id].file_path),
           status |-> 200, message |-> "Deleted successfully" ]

\* UPDATE document_random SET col = COALESCE($n, col) ... WHERE id AND user_id
UpdateDocumentRow(docs, id, user, title, newPath, checksum) ==
    IF ~OwnRow(docs, id, user)
    THEN docs
    ELSE [ docs EXCEPT
             ![id].document_title = IF title # << >> THEN Trim(title) ELSE @,
             ![id].file_path = IF newPath # 0 THEN newPath ELSE @,
             ![id].checksum_sha256 = IF newPath # 0 THEN checksum ELSE @ ]

\* a request starts while fewer than conc PUT requests are suspended
Upload(conc, user, title, content, throws) ==
    LET r == UploadResult(document_random, uploads, user, title, content,
                          filesSaved + 1, docsInserted + 1, throws)
        saved == content # NoFile /\ requireAuth(user) = Passed
    IN  /\ Cardinality(docReqs) < conc
        /\ saved => filesSaved < MaxFiles
        /\ r.status = 201 => docsInserted < MaxDocs
        /\ document_random' = r.docs
        /\ uploads' = r.files
        /\ filesSaved' = IF saved THEN filesSaved + 1 ELSE filesSaved
        /\ docsInserted' = IF r.status = 201 THEN docsInserted + 1 ELSE docsInserted
        /\ UNCHANGED << docReqs, accounts >>

DeleteDocument(conc, user, id, throws) ==
    LET r == DeleteDocumentResult(document_random, uploads, user, id, throws)
    IN  /\ Cardinality(docReqs) < conc
        /\ document_random' = r.docs
        /\ uploads' = r.files
        /\ UNCHANGED << docReqs, filesSaved, docsInserted, accounts >>

(* PUT /api/documents/:id, one action per stretch between two awaits *)

\* requireAuth, multer saves the file part, SELECT the caller's row
PutBegin(conc, user, id, title, content) ==
    LET saved == content # NoFile /\ requireAuth(user) = Passed
        newPath == IF saved THEN filesSaved + 1 ELSE 0
        files == IF saved THEN MapSet(uploads, newPath, content) ELSE uploads
    IN  /\ Cardinality(docReqs) < conc
        /\ saved => filesSaved < MaxFiles
        /\ filesSaved' = IF saved THEN filesSaved + 1 ELSE filesSaved
        /\ IF requireAuth(user) # Passed
           THEN UNCHANGED << uploads, docReqs >>
           ELSE IF ~OwnRow(document_random, id, user)
           THEN /\ uploads' = deleteLocalFile(files, newPath)
                /\ UNCHANGED docReqs
           ELSE /\ uploads' = files
                /\ docReqs' = docReqs \cup
                      { [ user |-> user, id |-> id, title |-> title,
                          newSavedPath |-> newPath,
                          existing |-> document_random[id].file_path,
                          checksum_sha256 |-> NoChecksum,
                          pc |-> IF saved THEN "dup" ELSE "update" ] }
        /\ UNCHANGED << document_random, docsInserted, accounts >>

\* sha256File, then the duplicate SELECT
PutDup(r) ==
    LET checksum == sha256File(uploads, r.newSavedPath)
    IN  /\ r \in docReqs
        /\ r.pc = "dup"
        /\ IF DuplicateOf(document_random, r.user, checksum, r.id)
           THEN /\ uploads' = deleteLocalFile(uploads, r.newSavedPath)
                /\ docReqs' = docReqs \ { r }
           ELSE /\ uploads' = uploads
                /\ docReqs' = (docReqs \ { r }) \cup
                      { [ r EXCEPT !.checksum_sha256 = checksum, !.pc = "update" ] }
        /\ UNCHANGED << document_random, filesSaved, docsInserted, accounts >>

\* the UPDATE; when it throws, the catch deletes the new file
PutUpdate(r, throws) ==
    /\ r \in docReqs
    /\ r.pc = "update"
    /\ IF throws
       THEN /\ uploads' = deleteLocalFile(uploads, r.newSavedPath)
            /\ docReqs' = docReqs \ { r }
            /\ UNCHANGED document_random
       ELSE /\ document_random' =
                  UpdateDocumentRow(document_random, r.id, r.user, r.title,
                                    r.newSavedPath, r.checksum_sha256)
            /\ docReqs' = (docReqs \ { r }) \cup { [ r EXCEPT !.pc = "finish" ] }
            /\ UNCHANGED uploads
    /\ UNCHANGED << filesSaved, docsInserted, accounts >>

\* the old file is deleted if the request replaced it, and the response is sent
PutFinish(r) ==
    /\ r \in docReqs
    /\ r.pc = "finish"
    /\ uploads' = IF r.newSavedPath # 0 /\ r.existing # r.newSavedPath
                  THEN deleteLocalFile(uploads, r.existing)
                  ELSE uploads
    /\ docReqs' = docReqs \ { r }
    /\ UNCHANGED << document_random, filesSaved, docsInserted, accounts >>

\* the requests of the document router, at most conc of them in flight
NextDocs(conc) ==
    \/ \E user \in DocUsers, title \in DocTitles, content \in DocContents,
          throws \in BOOLEAN :
          Upload(conc, user, title, content, throws)
    \/ \E user \in DocUsers, id \in DocIds, throws \in BOOLEAN :
          DeleteDocument(conc, user, id, throws)
    \/ \E user \in DocUsers, id \in DocIds, title \in DocTitles,
          content \in DocContents :
          PutBegin(conc, user, id, title, content)
    \/ \E r \in docReqs : PutDup(r)
    \/ \E r \in docReqs, throws \in BOOLEAN : PutUpdate(r, throws)
    \/ \E r \in docReqs : PutFinish(r)

\* one request at a time
NextDocuments == NextDocs(1)
SpecDocuments == InitFlows /\ [][NextDocuments]_vars

\* the requests of one user on one document, in flight together
NextDocRaces ==
    \/ \E content \in DocContents \ { NoFile } :
          Upload(MaxConc, 1, << "t" >>, content, FALSE)
    \/ DeleteDocument(MaxConc, 1, 1, FALSE)
    \/ \E content \in DocContents : PutBegin(MaxConc, 1, 1, << "t" >>, content)
    \/ \E r \in docReqs : PutDup(r)
    \/ \E r \in docReqs, throws \in BOOLEAN : PutUpdate(r, throws)
    \/ \E r \in docReqs : PutFinish(r)
SpecDocRaces == InitFlows /\ [][NextDocRaces]_vars

----------------------------------------------------------------------------
\* the file paths the rows of document_random hold
ReferencedPaths == { document_random[d].file_path : d \in DOMAIN document_random }

\* C38 as claimed: whenever no document request is in flight, the files in
\* UPLOAD_DIR and the rows of document_random are in one-to-one
\* correspondence: every stored file is the file_path of exactly one row and
\* every row's file is stored, also after PUT requests that replaced the file
\* of one document while in flight together.
C38_FilesMatchRecords ==
    docReqs = { } =>
        /\ DOMAIN uploads = ReferencedPaths
        /\ \A d, e \in DOMAIN document_random :
              document_random[d].file_path = document_random[e].file_path => d = e

----------------------------------------------------------------------------
DocNotFound(r) == r.status = 404 /\ r.message = "Document not found"

\* C39: for requests handled one at a time and every caller id U, GET,
\* download, PUT and DELETE of /api/documents/:id answer "Document not found"
\* and read, write and remove nothing unless the row's user_id is U; a row
\* changes or disappears only in a PUT or DELETE of its owner; an upload is
\* refused as duplicate exactly when a row of U holds the checksum, so a
\* content stored by another user is accepted and no user holds two rows
\* with one checksum.
C39_DocumentsAreConfinedToTheirOwner ==
    /\ [](\A user \in DocUsers \ { 0 }, id \in DocIds :
            LET own == OwnRow(document_random, id, user)
                g == GetDocumentResult(document_random, user, id)
                dl == DownloadResult(document_random, uploads, user, id)
                del == DeleteDocumentResult(document_random, uploads, user, id, FALSE)
            IN  /\ IF own
                   THEN /\ g.status = 200 /\ g.row = << document_random[id] >>
                        /\ dl.sent = << document_random[id].file_path >>
                        /\ del.status = 200
                        /\ del.docs = MapDelete(document_random, id)
                   ELSE /\ DocNotFound(g) /\ g.row = << >>
                        /\ DocNotFound(dl) /\ dl.sent = << >>
                        /\ DocNotFound(del)
                        /\ del.docs = document_random
                        /\ del.files = uploads
                /\ \A content \in DocContents \ { NoFile } :
                      LET up == UploadResult(document_random, uploads, user, << "t" >>,
                                             content, filesSaved + 1,
                                             docsInserted + 1, FALSE)
                      IN  IF \E d \in DOMAIN document_random :
                                /\ document_random[d].user_id = user
                                /\ document_random[d].checksum_sha256
                                      = [ sha256 |-> content ]
                          THEN up.status = 409 /\ up.docs = document_random
                          ELSE up.status = 201)
    /\ [](\A d, e \in DOMAIN document_random :
            (/\ document_random[d].user_id = document_random[e].user_id
             /\ document_random[d].checksum_sha256 = document_random[e].checksum_sha256)
            => d = e)
    /\ [][/\ \A d \in DOMAIN document_random :
               (d \notin DOMAIN document_random' \/ document_random'[d] # document_random[d])
               => \/ \E throws \in BOOLEAN :
                        DeleteDocument(1, document_random[d].user_id, d, throws)
                  \/ \E r \in docReqs :
                        /\ r.user = document_random[d].user_id
                        /\ r.id = d
                        /\ PutUpdate(r, FALSE)
          /\ \A user \in DocUsers, id \in DocIds, title \in DocTitles,
                content \in DocContents :
               (/\ ~OwnRow(document_random, id, user)
                /\ PutBegin(1, user, id, title, content))
               => UNCHANGED << document_random, uploads, docReqs >>]_vars

\* two users hold the same content, one row each; a third file was saved and
\* is gone again (its request was refused, or it replaced a file), and every
\* stored file belongs to a row
C39_Witness ==
    \E d, e \in DOMAIN document_random :
        /\ document_random[d].user_id = 1
        /\ document_random[e].user_id = 2
        /\ document_random[d].checksum_sha256 = document_random[e].checksum_sha256
        /\ docReqs = { }
        /\ filesSaved = MaxFiles
        /\ DOMAIN uploads = ReferencedPaths

====
